---------------------------- MODULE Spec2Model ----------------------------
(***************************************************************************)
(* A model of the replicated state machine of                              *)
(* src/src/state/store/state_machine_objects.rs: the persistent column     *)
(* families (the forward indexes), the ten in-memory reverse indexes of    *)
(* IndexifyState, and apply_state_machine_updates, which applies one       *)
(* StateMachineUpdateRequest inside one store transaction.                 *)
(*                                                                         *)
(* Conventions.                                                            *)
(*   - A HashMap is a function whose DOMAIN is the set of its keys; a      *)
(*     HashSet is a set; a Vec is a sequence; Option<T> is {} (None) or    *)
(*     {x} (Some(x)).                                                      *)
(*   - A helper that takes (db, txn, ...) and returns Result<(), Error>    *)
(*     takes and returns a context c = [txn, state, res, ..]: the view of  *)
(*     the open transaction, the IndexifyState (the reverse indexes are    *)
(*     behind interior-mutable handles, so a helper may change them) and   *)
(*     the Result so far; a caller goes on only while the Result is Ok     *)
(*     (the `?` operator).                                                 *)
(*   - Fields of the persisted records that no branch of the code reads    *)
(*     (addresses, timestamps, payload bodies) are left out.               *)
(***************************************************************************)
EXTENDS Integers, Sequences, FiniteSets, TLC

(***************************************************************************)
(* Bounds of the model.                                                    *)
(***************************************************************************)
\* Content versions named by requests are 1..MaxVersion.
MaxVersion == 2
\* Content is stored at versions up to MaxStoredVersion, a two-digit number.
MaxStoredVersion == 11
\* executor_running_task_count is a usize; requests that would raise a
\* counter above MaxCount are not issued.
MaxCount == 2

(***************************************************************************)
(* The identifiers requests draw from.                                     *)
(***************************************************************************)
TaskIds == {"t1", "t2"}
ExecutorIds == {"ex1", "ex2"}
ExtractorNames == {"E"}
StateChangeIds == {"sc1", "sc2"}
ContentIds == {"p", "c"}
Namespaces == {"n"}
GcTaskIds == {"g1"}
Versions == 1..MaxVersion
\* The times a state change is marked processed at (StateChangeProcessed.processed_at).
ProcessedAtTimes == {7}

(***************************************************************************)
(* Option, HashMap and HashSet.                                            *)
(***************************************************************************)
None == {}
Some(x) == {x}
Unwrap(o) == CHOOSE x \in o : TRUE

EmptyMap == [k \in {} |-> {}]
\* HashMap::insert / txn.put_cf
MapPut(m, k, v) == [x \in (DOMAIN m) \cup {k} |-> IF x = k THEN v ELSE m[x]]
\* HashMap::remove / txn.delete_cf
MapDel(m, k) == [x \in (DOMAIN m) \ {k} |-> m[x]]
\* HashMap::get(k).cloned().unwrap_or_default() for a map of sets
MapGetOrDefault(m, k) == IF k \in DOMAIN m THEN m[k] ELSE {}
\* map.entry(k).or_default().insert(v)
MapSetInsert(m, k, v) == MapPut(m, k, MapGetOrDefault(m, k) \cup {v})
\* map.entry(k).or_default().remove(v): the entry is created when absent
MapSetRemove(m, k, v) == MapPut(m, k, MapGetOrDefault(m, k) \ {v})

(***************************************************************************)
(* Results.                                                                *)
(***************************************************************************)
Ok == [kind |-> "Ok", msg |-> ""]
DatabaseError(msg) == [kind |-> "DatabaseError", msg |-> msg]
TransactionError(msg) == [kind |-> "TransactionError", msg |-> msg]
\* A call that never returns (a traversal that does not terminate).
Diverges == [kind |-> "Diverges", msg |-> ""]

\* `return Err(err)`, or `?` on an Err: the Result of the context becomes err.
Fail(c, err) == [c EXCEPT !.res = err]

(***************************************************************************)
(* Content keys: format!("{}::v{}", id, version) and its parse.            *)
(* A key is the triple of the id, the separator and the decimal digits     *)
(* of the version.                                                         *)
(***************************************************************************)
RECURSIVE Decimal(_)
\* u64's Display: the decimal digits, most significant first.
Decimal(n) == IF n < 10 THEN <<n>> ELSE Append(Decimal(n \div 10), n % 10)

RECURSIVE ParseU64(_)
\* str::parse::<u64> on a digit string: Some(value), or None for no digits.
ParseU64(digits) ==
    IF Len(digits) = 0 THEN None
    ELSE IF Len(digits) = 1 THEN Some(digits[1])
    ELSE Some(10 * Unwrap(ParseU64(SubSeq(digits, 1, Len(digits) - 1)))
              + digits[Len(digits)])

content_key(id, version) == <<id, "::v", Decimal(version)>>
ContentKey(cid) == content_key(cid.id, cid.version)
\* ContentMetadataId::try_from(String): the id before "::v", the version after.
KeyToContentId(key) == [id |-> key[1], version |-> Unwrap(ParseU64(key[3]))]

\* ContentMetadataId of a content with no parent (Default: empty id, version 0).
NoParent == [id |-> "", version |-> 0]

(***************************************************************************)
(* The reverse indexes (the methods of the ten index structs).             *)
(***************************************************************************)
\* IndexifyState::default()
DefaultState ==
    [unassigned_tasks |-> {},
     unprocessed_state_changes |-> {},
     content_namespace_table |-> EmptyMap,
     extraction_policies_table |-> EmptyMap,
     extractor_executors_table |-> EmptyMap,
     namespace_index_table |-> EmptyMap,
     unfinished_tasks_by_extractor |-> EmptyMap,
     executor_running_task_count |-> EmptyMap,
     schemas_by_namespace |-> EmptyMap,
     content_children_table |-> EmptyMap]

\* ExecutorRunningTaskCount::increment_running_task_count
increment_running_task_count(counts, executor_id) ==
    MapPut(counts, executor_id,
           (IF executor_id \in DOMAIN counts THEN counts[executor_id] ELSE 0) + 1)

\* A faulty decrement that does not clamp at zero.
decrement_unclamped(counts, executor_id) ==
    MapPut(counts, executor_id,
           (IF executor_id \in DOMAIN counts THEN counts[executor_id] ELSE 0) - 1)

\* ExecutorRunningTaskCount::decrement_running_task_count
decrement_running_task_count(counts, executor_id) ==
    IF executor_id \in DOMAIN counts
    THEN IF counts[executor_id] > 0
         THEN MapPut(counts, executor_id, counts[executor_id] - 1)
         ELSE counts
    ELSE MapPut(counts, executor_id, 0)

\* ContentChildrenTable::insert
ContentChildren_insert(children, parent_id, child_id) ==
    MapSetInsert(children, parent_id, child_id)

\* ContentChildrenTable::remove
ContentChildren_remove(children, parent_id, child_id) ==
    IF parent_id \in DOMAIN children
    THEN IF children[parent_id] \ {child_id} = {}
         THEN MapDel(children, parent_id)
         ELSE MapPut(children, parent_id, children[parent_id] \ {child_id})
    ELSE children

\* ContentChildrenTable::get_children
get_children(children, parent_id) == MapGetOrDefault(children, parent_id)

\* A faulty replace_parent that copies the children set and keeps the old key.
replace_parent_keeping_old(children, old_parent_id, new_parent_id) ==
    MapPut(children, new_parent_id, MapGetOrDefault(children, old_parent_id))

\* ContentChildrenTable::replace_parent
replace_parent(children, old_parent_id, new_parent_id) ==
    MapPut(MapDel(children, old_parent_id), new_parent_id,
           MapGetOrDefault(children, old_parent_id))

(***************************************************************************)
(* The persistent store: one function per column family                    *)
(* (StateMachineColumns), from key to decoded value.  JsonEncoder's        *)
(* encode/decode round trip is the only use made of the stored bytes, so   *)
(* a column family holds the decoded records.                              *)
(***************************************************************************)
EmptyDb ==
    [StateChanges |-> EmptyMap,
     Tasks |-> EmptyMap,
     GarbageCollectionTasks |-> EmptyMap,
     TaskAssignments |-> EmptyMap,
     ContentTable |-> EmptyMap,
     Executors |-> EmptyMap,
     Extractors |-> EmptyMap,
     ExtractionPolicies |-> EmptyMap,
     StructuredDataSchemas |-> EmptyMap,
     Namespaces |-> EmptyMap,
     IndexTable |-> EmptyMap,
     ExtractionPoliciesAppliedOnContent |-> EmptyMap,
     CoordinatorAddress |-> EmptyMap]

\* The greatest element of a non-empty set of numbers.
Max(S) == CHOOSE x \in S : \A y \in S : y <= x

(***************************************************************************)
(* Forward-index helpers of IndexifyState.                                 *)
(***************************************************************************)
RECURSIVE set_new_state_changes(_, _)
set_new_state_changes(c, state_changes) ==
    IF state_changes = <<>> THEN c
    ELSE LET change == Head(state_changes)
         IN set_new_state_changes(
                [c EXCEPT !.txn.StateChanges = MapPut(@, change.id, change)],
                Tail(state_changes))

\* A faulty set_processed_state_changes that skips the state changes that have
\* no row.
RECURSIVE set_processed_skipping_missing(_, _)
set_processed_skipping_missing(c, state_changes) ==
    IF state_changes = <<>> THEN c
    ELSE LET change == Head(state_changes)
         IN IF change.state_change_id \notin DOMAIN c.txn.StateChanges
            THEN set_processed_skipping_missing(c, Tail(state_changes))
            ELSE set_processed_skipping_missing(
                     [c EXCEPT !.txn.StateChanges =
                         MapPut(@, change.state_change_id,
                                [@[change.state_change_id] EXCEPT
                                    !.processed_at = Some(change.processed_at)])],
                     Tail(state_changes))

RECURSIVE set_processed_state_changes(_, _)
set_processed_state_changes(c, state_changes) ==
    IF state_changes = <<>> THEN c
    ELSE LET change == Head(state_changes)
         IN IF change.state_change_id \notin DOMAIN c.txn.StateChanges
            THEN Fail(c, DatabaseError("State change not found"))
            ELSE set_processed_state_changes(
                     [c EXCEPT !.txn.StateChanges =
                         MapPut(@, change.state_change_id,
                                [@[change.state_change_id] EXCEPT
                                    !.processed_at = Some(change.processed_at)])],
                     Tail(state_changes))

RECURSIVE set_tasks(_, _)
set_tasks(c, tasks) ==
    IF tasks = <<>> THEN c
    ELSE set_tasks([c EXCEPT !.txn.Tasks = MapPut(@, Head(tasks).id, Head(tasks))],
                   Tail(tasks))

RECURSIVE update_tasks(_, _)
update_tasks(c, tasks) ==
    IF tasks = <<>> THEN c
    ELSE update_tasks([c EXCEPT !.txn.Tasks = MapPut(@, Head(tasks).id, Head(tasks))],
                      Tail(tasks))

RECURSIVE set_garbage_collection_tasks(_, _)
set_garbage_collection_tasks(c, garbage_collection_tasks) ==
    IF garbage_collection_tasks = <<>> THEN c
    ELSE LET gc_task == Head(garbage_collection_tasks)
         IN set_garbage_collection_tasks(
                [c EXCEPT !.txn.GarbageCollectionTasks = MapPut(@, gc_task.id, gc_task)],
                Tail(garbage_collection_tasks))

RECURSIVE update_garbage_collection_tasks(_, _)
update_garbage_collection_tasks(c, garbage_collection_tasks) ==
    IF garbage_collection_tasks = <<>> THEN c
    ELSE LET gc_task == Head(garbage_collection_tasks)
         IN update_garbage_collection_tasks(
                [c EXCEPT !.txn.GarbageCollectionTasks = MapPut(@, gc_task.id, gc_task)],
                Tail(garbage_collection_tasks))

\* The stored set of the executor, or the empty set when it has no row.
get_task_assignments_for_executor(txn, executor_id) ==
    MapGetOrDefault(txn.TaskAssignments, executor_id)

\* task_assignments: executor id -> set of task ids; one put per entry.
set_task_assignments(c, task_assignments) ==
    [c EXCEPT !.txn.TaskAssignments =
        [e \in (DOMAIN @) \cup (DOMAIN task_assignments) |->
            IF e \in DOMAIN task_assignments THEN task_assignments[e] ELSE @[e]]]

\* The task ids read by delete_task_assignments_for_executor before the delete.
task_assignments_to_delete(txn, executor_id) ==
    MapGetOrDefault(txn.TaskAssignments, executor_id)

delete_task_assignments_for_executor(c, executor_id) ==
    [c EXCEPT !.txn.TaskAssignments = MapDel(@, executor_id)]

\* Byte order of two digit strings (the order in which the store iterates keys).
RECURSIVE DigitsBefore(_, _)
DigitsBefore(a, b) ==
    IF Len(a) = 0 THEN Len(b) > 0
    ELSE IF Len(b) = 0 THEN FALSE
    ELSE IF Head(a) # Head(b) THEN Head(a) < Head(b)
    ELSE DigitsBefore(Tail(a), Tail(b))

\* A faulty get_latest_version_of_content that returns the version of the last
\* key in iteration order.
get_latest_version_lexicographic(txn, content_id) ==
    LET suffixes == { k[3] : k \in { x \in DOMAIN txn.ContentTable :
                                       /\ x[1] = content_id
                                       /\ x[2] = "::v"
                                       /\ ParseU64(x[3]) # None } }
    IN IF suffixes = {} THEN 0
       ELSE Unwrap(ParseU64(CHOOSE d \in suffixes :
                               \A e \in suffixes : e = d \/ DigitsBefore(e, d)))

\* The prefix scan of ContentTable inside the transaction: the greatest version
\* among the keys "<content_id>::v<digits>", 0 when there is none.
get_latest_version_of_content(txn, content_id) ==
    LET versions == { Unwrap(ParseU64(key[3])) :
                        key \in { k \in DOMAIN txn.ContentTable :
                                    /\ k[1] = content_id
                                    /\ k[2] = "::v"
                                    /\ ParseU64(k[3]) # None } }
    IN IF versions = {} THEN 0 ELSE Max(versions)

\* A faulty first loop of set_content that keeps the parent version of the
\* request.
updated_content_as_requested(txn, content) == content

\* First loop of set_content, one element: the parent version is replaced by
\* the parent's latest version.
updated_content(txn, content) ==
    IF content.parent_id.id # ""
    THEN [content EXCEPT !.parent_id.version =
             get_latest_version_of_content(txn, content.parent_id.id)]
    ELSE content

\* Second loop of set_content: one put per element, in order.
RECURSIVE put_contents(_, _)
put_contents(c, updated_contents) ==
    IF updated_contents = <<>> THEN c
    ELSE put_contents(
             [c EXCEPT !.txn.ContentTable =
                 MapPut(@, ContentKey(Head(updated_contents).id), Head(updated_contents))],
             Tail(updated_contents))

\* A faulty set_content that writes the contents without looking for their
\* parents.
set_content_unchecked(c, contents_vec) ==
    put_contents(c, [i \in DOMAIN contents_vec |->
                        updated_content(c.txn, contents_vec[i])])

\* A faulty set_content with a single loop: each content is resolved against
\* the rows in the transaction, the rows of the earlier contents of the list
\* included, and put at once.
RECURSIVE set_content_one_loop(_, _)
set_content_one_loop(c, contents_vec) ==
    IF contents_vec = <<>> THEN c
    ELSE LET content == Head(contents_vec)
         IN IF /\ content.parent_id.id # ""
               /\ get_latest_version_of_content(c.txn, content.parent_id.id) = 0
            THEN Fail(c, DatabaseError("Parent content not found"))
            ELSE set_content_one_loop(
                     put_contents(c, <<updated_content(c.txn, content)>>),
                     Tail(contents_vec))

set_content(c, contents_vec) ==
    LET missing == { i \in DOMAIN contents_vec :
                       /\ contents_vec[i].parent_id.id # ""
                       /\ get_latest_version_of_content(
                              c.txn, contents_vec[i].parent_id.id) = 0 }
    IN IF missing # {}
       THEN Fail(c, DatabaseError("Parent content not found"))
       ELSE put_contents(c, [i \in DOMAIN contents_vec |->
                                updated_content(c.txn, contents_vec[i])])

\* update_content, one entry of the map: the rows of the children of the old key
\* (read from the in-memory children table) get the new content's id as parent,
\* then the new row is put.
update_content_entry(c, old_content_key, new_content_data) ==
    LET children == get_children(c.state.content_children_table,
                                 KeyToContentId(old_content_key))
        child_keys == { ContentKey(child) : child \in children }
    IN IF \E k \in child_keys : k \notin DOMAIN c.txn.ContentTable
       THEN Fail(c, DatabaseError("Child content not found"))
       ELSE LET rewired == [k \in DOMAIN c.txn.ContentTable |->
                               IF k \in child_keys
                               THEN [c.txn.ContentTable[k] EXCEPT
                                        !.parent_id = new_content_data.id]
                               ELSE c.txn.ContentTable[k]]
            IN [c EXCEPT !.txn.ContentTable =
                   MapPut(rewired, ContentKey(new_content_data.id), new_content_data)]

\* updated_content_map: the entries of the HashMap in the order the loop visits
\* them, each [old_content_key, new_content_data].
RECURSIVE update_content(_, _)
update_content(c, updated_content_map) ==
    IF updated_content_map = <<>> THEN c
    ELSE LET entry == Head(updated_content_map)
             c1 == update_content_entry(c, entry.old_content_key, entry.new_content_data)
         IN IF c1.res # Ok THEN c1
            ELSE update_content(c1, Tail(updated_content_map))

\* A faulty traversal that enqueues no children: only the roots are visited.
tombstone_no_successors(c, id) == {}

\* The ids the traversal of tombstone_content_tree enqueues after popping id:
\* the children of the id stored in the row (none when the row is missing,
\* where the traversal returns an error instead).
tombstone_successors(c, id) ==
    IF ContentKey(id) \in DOMAIN c.txn.ContentTable
    THEN get_children(c.state.content_children_table, c.txn.ContentTable[ContentKey(id)].id)
    ELSE {}

\* Every id the queue ever holds, starting from the ids in `frontier`.
RECURSIVE tombstone_reach(_, _, _)
tombstone_reach(c, seen, frontier) ==
    IF frontier \subseteq seen THEN seen
    ELSE tombstone_reach(c, seen \cup frontier,
                         UNION { tombstone_successors(c, id) : id \in frontier })

\* A faulty tombstone_content_tree that flips the flag of every row it visits.
tombstone_content_tree_flipping(c, content_ids) ==
    LET reach == tombstone_reach(c, {}, content_ids)
    IN IF \E id \in reach : ContentKey(id) \notin DOMAIN c.txn.ContentTable
       THEN Fail(c, DatabaseError("Content not found while tombstoning"))
       ELSE [c EXCEPT !.txn.ContentTable =
                [k \in DOMAIN @ |->
                    IF k \in { ContentKey(id) : id \in reach }
                    THEN [@[k] EXCEPT !.tombstoned = ~@]
                    ELSE @[k]]]

\* The queue of tombstone_content_tree keeps no visited set.  Every id that is
\* reachable from the roots is popped after finitely many steps, so a missing
\* row is found and returned as an error; otherwise the loop ends exactly when
\* no reachable id lies on a cycle, and then every reachable row is rewritten
\* with tombstoned = true (rewriting a row twice changes nothing).
tombstone_content_tree(c, content_ids) ==
    LET reach == tombstone_reach(c, {}, content_ids)
        on_cycle == { id \in reach :
                        id \in tombstone_reach(c, {}, tombstone_successors(c, id)) }
    IN IF \E id \in reach : ContentKey(id) \notin DOMAIN c.txn.ContentTable
       THEN Fail(c, DatabaseError("Content not found while tombstoning"))
       ELSE IF on_cycle # {}
       THEN Fail(c, Diverges)
       ELSE [c EXCEPT !.txn.ContentTable =
                [k \in DOMAIN @ |->
                    IF k \in { ContentKey(id) : id \in reach }
                    THEN [@[k] EXCEPT !.tombstoned = TRUE]
                    ELSE @[k]]]

RECURSIVE delete_content(_, _)
delete_content(c, content_ids) ==
    IF content_ids = <<>> THEN c
    ELSE LET content_id == Head(content_ids)
             latest_version == get_latest_version_of_content(c.txn, content_id)
         IN delete_content(
                [c EXCEPT !.txn.ContentTable =
                    MapDel(@, content_key(content_id, latest_version))],
                Tail(content_ids))

set_executor(c, executor_id, extractor) ==
    [c EXCEPT !.txn.Executors =
        MapPut(@, executor_id, [id |-> executor_id, extractor |-> extractor])]

\* delete_executor: the executor's row must exist; executor_to_delete is the
\* ExecutorMetadata it returns.
executor_to_delete(txn, executor_id) == txn.Executors[executor_id]

delete_executor(c, executor_id) ==
    IF executor_id \notin DOMAIN c.txn.Executors
    THEN Fail(c, DatabaseError("Executor not found"))
    ELSE [c EXCEPT !.txn.Executors = MapDel(@, executor_id)]

set_extractor(c, extractor) ==
    [c EXCEPT !.txn.Extractors = MapPut(@, extractor.name, extractor)]

\* The merge of one request mapping into the mapping read for its key: both
\* collections are extended (an entry of the request replaces a stored entry of
\* the same policy id).
extend_mapping(existing_mapping, new_mapping) ==
    [existing_mapping EXCEPT
        !.extraction_policy_ids = @ \cup new_mapping.extraction_policy_ids,
        !.time_of_policy_completion =
            [x \in (DOMAIN @) \cup (DOMAIN new_mapping.time_of_policy_completion) |->
                IF x \in DOMAIN new_mapping.time_of_policy_completion
                THEN new_mapping.time_of_policy_completion[x]
                ELSE @[x]]]

\* The rows read by multi_get_cf, one per mapping of the request, all before
\* the first write; an absent row is the empty mapping of the key.
existing_mappings(txn, mappings) ==
    [i \in DOMAIN mappings |->
        LET key == ContentKey(mappings[i].content_id)
        IN IF key \in DOMAIN txn.ExtractionPoliciesAppliedOnContent
           THEN txn.ExtractionPoliciesAppliedOnContent[key]
           ELSE [content_id |-> KeyToContentId(key),
                 extraction_policy_ids |-> {},
                 time_of_policy_completion |-> EmptyMap]]

\* The write-back loop: one put per updated mapping, in order.
RECURSIVE put_mappings(_, _)
put_mappings(c, updated_mappings) ==
    IF updated_mappings = <<>> THEN c
    ELSE LET updated_mapping == Head(updated_mappings)
         IN put_mappings(
                [c EXCEPT !.txn.ExtractionPoliciesAppliedOnContent =
                    MapPut(@, ContentKey(updated_mapping.content_id), updated_mapping)],
                Tail(updated_mappings))

set_content_policies_applied_on_content(c, mappings) ==
    LET existing == existing_mappings(c.txn, mappings)
    IN put_mappings(c, [i \in DOMAIN mappings |-> extend_mapping(existing[i], mappings[i])])

\* A faulty mark that does not look for the policy id in the mapping.
mark_policy_unregistered(c, content_id, latest_version, key, extraction_policy_id, policy_completion_time) ==
    IF latest_version = 0
    THEN Fail(c, DatabaseError("No content found"))
    ELSE IF key \notin DOMAIN c.txn.ExtractionPoliciesAppliedOnContent
    THEN Fail(c, DatabaseError("No content policies applied on content found"))
    ELSE LET content_policy_mappings == c.txn.ExtractionPoliciesAppliedOnContent[key]
         IN [c EXCEPT !.txn.ExtractionPoliciesAppliedOnContent =
                MapPut(@, key,
                       [content_id |-> [id |-> content_id, version |-> latest_version],
                        extraction_policy_ids |->
                            content_policy_mappings.extraction_policy_ids,
                        time_of_policy_completion |->
                            MapPut(content_policy_mappings.time_of_policy_completion,
                                   extraction_policy_id, policy_completion_time)])]

\* The body of mark_extraction_policy_applied_on_content once the latest
\* version of the content and the key of its mapping row are known.
mark_policy_at_latest_version(c, content_id, latest_version, key, extraction_policy_id, policy_completion_time) ==
    IF latest_version = 0
    THEN Fail(c, DatabaseError("No content found"))
    ELSE IF key \notin DOMAIN c.txn.ExtractionPoliciesAppliedOnContent
    THEN Fail(c, DatabaseError("No content policies applied on content found"))
    ELSE LET content_policy_mappings == c.txn.ExtractionPoliciesAppliedOnContent[key]
         IN IF extraction_policy_id \notin content_policy_mappings.extraction_policy_ids
            THEN Fail(c, DatabaseError("Extraction policy not registered against the content"))
            ELSE [c EXCEPT !.txn.ExtractionPoliciesAppliedOnContent =
                     MapPut(@, key,
                            [content_id |-> [id |-> content_id, version |-> latest_version],
                             extraction_policy_ids |->
                                 content_policy_mappings.extraction_policy_ids,
                             time_of_policy_completion |->
                                 MapPut(content_policy_mappings.time_of_policy_completion,
                                        extraction_policy_id, policy_completion_time)])]

mark_extraction_policy_applied_on_content(c, content_id, extraction_policy_id, policy_completion_time) ==
    mark_policy_at_latest_version(
        c, content_id, get_latest_version_of_content(c.txn, content_id),
        content_key(content_id, get_latest_version_of_content(c.txn, content_id)),
        extraction_policy_id, policy_completion_time)

(***************************************************************************)
(* Readers of the content table.  A Vec result is a sequence; a HashSet is *)
(* iterated in some order.                                                 *)
(***************************************************************************)
\* The elements of a set, in some order.
RECURSIVE IterationOf(_)
IterationOf(S) ==
    IF S = {} THEN <<>>
    ELSE LET x == CHOOSE y \in S : TRUE
         IN <<x>> \o IterationOf(S \ {x})

\* filter_map over the ids: the row of each (id, version), when there is one
\* and it is not tombstoned.
RECURSIVE get_content_from_ids_with_version(_, _)
get_content_from_ids_with_version(txn, content_ids) ==
    IF content_ids = {} THEN <<>>
    ELSE LET content_id == CHOOSE y \in content_ids : TRUE
             key == content_key(content_id.id, content_id.version)
             rest == get_content_from_ids_with_version(txn, content_ids \ {content_id})
         IN IF key \in DOMAIN txn.ContentTable /\ ~txn.ContentTable[key].tombstoned
            THEN <<txn.ContentTable[key]>> \o rest
            ELSE rest

\* The row of the highest version of each id, when the id has a version and
\* the row is not tombstoned.
RECURSIVE get_content_from_ids(_, _)
get_content_from_ids(txn, content_ids) ==
    IF content_ids = {} THEN <<>>
    ELSE LET content_id == CHOOSE y \in content_ids : TRUE
             highest_version == get_latest_version_of_content(txn, content_id)
             key == content_key(content_id, highest_version)
             rest == get_content_from_ids(txn, content_ids \ {content_id})
         IN IF highest_version = 0 THEN rest
            ELSE IF key \in DOMAIN txn.ContentTable /\ ~txn.ContentTable[key].tombstoned
            THEN <<txn.ContentTable[key]>> \o rest
            ELSE rest

\* A faulty walk of the content tree that leaves tombstoned rows out of the
\* result (and still descends through them).
RECURSIVE content_tree_walk_hiding_tombstoned(_, _, _, _)
content_tree_walk_hiding_tombstoned(txn, children_table, queue, collected) ==
    IF queue = <<>> THEN collected
    ELSE LET current_root == Head(queue)
             highest_version == get_latest_version_of_content(txn, current_root)
         IN IF highest_version = 0
            THEN content_tree_walk_hiding_tombstoned(txn, children_table, Tail(queue),
                                                     collected)
            ELSE LET content == txn.ContentTable[content_key(current_root, highest_version)]
                     children == IterationOf(get_children(children_table, content.id))
                 IN content_tree_walk_hiding_tombstoned(
                        txn, children_table,
                        Tail(queue) \o [i \in DOMAIN children |-> children[i].id],
                        IF content.tombstoned THEN collected
                        ELSE Append(collected, content))

\* The `while let Some(current_root) = queue.pop_front()` loop of
\* get_content_tree_metadata: the row of the highest version of the id is
\* collected and the ids of its children are queued.
RECURSIVE content_tree_walk(_, _, _, _)
content_tree_walk(txn, children_table, queue, collected) ==
    IF queue = <<>> THEN collected
    ELSE LET current_root == Head(queue)
             highest_version == get_latest_version_of_content(txn, current_root)
         IN IF highest_version = 0
            THEN content_tree_walk(txn, children_table, Tail(queue), collected)
            ELSE LET content == txn.ContentTable[content_key(current_root, highest_version)]
                     children == IterationOf(get_children(children_table, content.id))
                 IN content_tree_walk(
                        txn, children_table,
                        Tail(queue) \o [i \in DOMAIN children |-> children[i].id],
                        Append(collected, content))

get_content_tree_metadata(txn, children_table, content_id) ==
    content_tree_walk(txn, children_table, <<content_id>>, <<>>)

(***************************************************************************)
(* apply_state_machine_updates: the arms of `match &request.payload`.      *)
(* Each takes the context after the state changes of the envelope were     *)
(* written and returns the context after its forward-index writes.         *)
(***************************************************************************)
arm_CreateTasks(c, payload) == set_tasks(c, payload.tasks)

arm_CreateOrAssignGarbageCollectionTask(c, payload) ==
    set_garbage_collection_tasks(c, payload.gc_tasks)

\* The edge removal at the end of the UpdateGarbageCollectionTask arm: both
\* latest versions are read from the transaction after delete_content ran.
remove_gc_edge(c, gc_task) ==
    LET parent_content_metadata_id ==
            [id |-> gc_task.parent_content_id,
             version |-> get_latest_version_of_content(c.txn, gc_task.parent_content_id)]
        content_metadata_id ==
            [id |-> gc_task.content_id,
             version |-> get_latest_version_of_content(c.txn, gc_task.content_id)]
    IN [c EXCEPT !.state.content_children_table =
           ContentChildren_remove(@, parent_content_metadata_id, content_metadata_id)]

arm_UpdateGarbageCollectionTask(c, payload) ==
    IF payload.mark_finished
    THEN LET c1 == update_garbage_collection_tasks(c, <<payload.gc_task>>)
             c2 == delete_content(c1, <<payload.gc_task.content_id>>)
         IN remove_gc_edge(c2, payload.gc_task)
    ELSE c

\* A faulty AssignTask arm that writes only the new task ids of each executor.
arm_AssignTask_overwriting(c, payload) ==
    LET assignments == payload.assignments
        executors == { assignments[t] : t \in DOMAIN assignments }
    IN set_task_assignments(c,
           [e \in executors |-> { t \in DOMAIN assignments : assignments[t] = e }])

\* assignments: task id -> executor id.  The fold groups the task ids by
\* executor; each executor's stored set is read, extended and written back.
arm_AssignTask(c, payload) ==
    LET assignments == payload.assignments
        executors == { assignments[t] : t \in DOMAIN assignments }
        tasks_of(e) == { t \in DOMAIN assignments : assignments[t] = e }
    IN set_task_assignments(c,
           [e \in executors |->
               get_task_assignments_for_executor(c.txn, e) \cup tasks_of(e)])

\* A faulty finish that decrements the counter and leaves the finished task in
\* the executor's TaskAssignments row.
finish_keeping_assignment(c, payload) ==
    IF payload.mark_finished /\ payload.executor_id # None
    THEN [c EXCEPT !.state.executor_running_task_count =
             decrement_running_task_count(@, Unwrap(payload.executor_id))]
    ELSE c

\* The `if *mark_finished` block of the UpdateTask arm.
finish_task_assignment(c, payload) ==
    IF payload.mark_finished /\ payload.executor_id # None
    THEN LET executor_id == Unwrap(payload.executor_id)
             existing_tasks == get_task_assignments_for_executor(c.txn, executor_id)
             c1 == set_task_assignments(c,
                       [e \in {executor_id} |-> existing_tasks \ {payload.task.id}])
         IN [c1 EXCEPT !.state.executor_running_task_count =
                decrement_running_task_count(@, executor_id)]
    ELSE c

arm_UpdateTask(c, payload) ==
    LET c1 == update_tasks(c, <<payload.task>>)
        c2 == finish_task_assignment(c1, payload)
    IN set_content(c2, payload.content_metadata)

arm_RegisterExecutor(c, payload) ==
    set_extractor(set_executor(c, payload.executor_id, payload.extractor.name),
                  payload.extractor)

\* Faulty reverse-index writes of the RemoveExecutor arm that drop the tasks of
\* the removed executor instead of putting them back into unassigned_tasks.
remove_executor_reverse_dropping_tasks(state, executor_meta, task_ids) ==
    [state EXCEPT
        !.extractor_executors_table =
            MapSetRemove(@, executor_meta.extractor, executor_meta.id),
        !.executor_running_task_count = MapDel(@, executor_meta.id)]

\* The reverse-index writes of the RemoveExecutor arm, made after its commit.
remove_executor_reverse(state, executor_meta, task_ids) ==
    [state EXCEPT
        !.extractor_executors_table =
            MapSetRemove(@, executor_meta.extractor, executor_meta.id),
        !.unassigned_tasks = @ \cup task_ids,
        !.executor_running_task_count = MapDel(@, executor_meta.id)]

\* The RemoveExecutor arm commits by itself, writes the reverse indexes and
\* returns Ok(()) from apply_state_machine_updates (c.returned).
arm_RemoveExecutor(c, payload, commit_ok) ==
    LET c1 == delete_executor(c, payload.executor_id)
        executor_meta == executor_to_delete(c.txn, payload.executor_id)
        task_ids == task_assignments_to_delete(c1.txn, payload.executor_id)
        c2 == delete_task_assignments_for_executor(c1, payload.executor_id)
    IN IF c1.res # Ok THEN c1
       ELSE IF ~commit_ok THEN Fail(c2, TransactionError("commit"))
       ELSE [c2 EXCEPT !.state = remove_executor_reverse(@, executor_meta, task_ids),
                       !.returned = TRUE]

arm_CreateContent(c, payload) == set_content(c, payload.content_metadata)

\* The reverse-index writes of the UpdateContent arm, one map entry.
RECURSIVE update_content_reverse(_, _)
update_content_reverse(state, updated_content_map) ==
    IF updated_content_map = <<>> THEN state
    ELSE LET entry == Head(updated_content_map)
             old_content_key == KeyToContentId(entry.old_content_key)
             new_content_data == entry.new_content_data
         IN update_content_reverse(
                [state EXCEPT
                    !.content_namespace_table =
                        MapSetInsert(MapSetRemove(@, new_content_data.namespace,
                                                  old_content_key),
                                     new_content_data.namespace, new_content_data.id),
                    !.content_children_table =
                        replace_parent(@, old_content_key, new_content_data.id)],
                Tail(updated_content_map))

arm_UpdateContent(c, payload) ==
    LET c1 == update_content(c, payload.updated_content)
    IN IF c1.res # Ok THEN c1
       ELSE [c1 EXCEPT !.state = update_content_reverse(@, payload.updated_content)]

arm_TombstoneContentTree(c, payload) == tombstone_content_tree(c, payload.content_ids)

arm_MarkStateChangesProcessed(c, payload) ==
    set_processed_state_changes(c, payload.state_changes)

dispatch(c, payload, commit_ok) ==
    CASE payload.type = "CreateTasks" -> arm_CreateTasks(c, payload)
      [] payload.type = "CreateOrAssignGarbageCollectionTask" ->
             arm_CreateOrAssignGarbageCollectionTask(c, payload)
      [] payload.type = "UpdateGarbageCollectionTask" ->
             arm_UpdateGarbageCollectionTask(c, payload)
      [] payload.type = "AssignTask" -> arm_AssignTask(c, payload)
      [] payload.type = "UpdateTask" -> arm_UpdateTask(c, payload)
      [] payload.type = "RegisterExecutor" -> arm_RegisterExecutor(c, payload)
      [] payload.type = "RemoveExecutor" -> arm_RemoveExecutor(c, payload, commit_ok)
      [] payload.type = "CreateContent" -> arm_CreateContent(c, payload)
      [] payload.type = "UpdateContent" -> arm_UpdateContent(c, payload)
      [] payload.type = "TombstoneContentTree" -> arm_TombstoneContentTree(c, payload)
      [] payload.type = "SetContentExtractionPolicyMappings" ->
             set_content_policies_applied_on_content(
                 c, payload.content_extraction_policy_mappings)
      [] payload.type = "MarkExtractionPolicyAppliedOnContent" ->
             mark_extraction_policy_applied_on_content(
                 c, payload.content_id, payload.extraction_policy_id,
                 payload.policy_completion_time)
      [] payload.type = "MarkStateChangesProcessed" ->
             arm_MarkStateChangesProcessed(c, payload)

(***************************************************************************)
(* IndexifyState::apply: the reverse-index writes.                         *)
(***************************************************************************)
RECURSIVE insert_new_state_changes(_, _)
insert_new_state_changes(state, new_state_changes) ==
    IF new_state_changes = <<>> THEN state
    ELSE insert_new_state_changes(
             [state EXCEPT !.unprocessed_state_changes = @ \cup {Head(new_state_changes).id}],
             Tail(new_state_changes))

\* mark_state_changes_processed over a list of StateChangeProcessed
RECURSIVE mark_state_changes_processed(_, _)
mark_state_changes_processed(state, state_changes) ==
    IF state_changes = <<>> THEN state
    ELSE mark_state_changes_processed(
             [state EXCEPT !.unprocessed_state_changes =
                 @ \ {Head(state_changes).state_change_id}],
             Tail(state_changes))

apply_RegisterExecutor(state, payload) ==
    [state EXCEPT
        !.extractor_executors_table =
            MapSetInsert(@, payload.extractor.name, payload.executor_id),
        !.executor_running_task_count = MapPut(@, payload.executor_id, 0)]

RECURSIVE apply_CreateTasks(_, _)
apply_CreateTasks(state, tasks) ==
    IF tasks = <<>> THEN state
    ELSE LET task == Head(tasks)
         IN apply_CreateTasks(
                [state EXCEPT
                    !.unassigned_tasks = @ \cup {task.id},
                    !.unfinished_tasks_by_extractor =
                        MapSetInsert(@, task.extractor, task.id)],
                Tail(tasks))

\* One increment per (task id, executor id) entry of the map.
RECURSIVE increment_times(_, _, _)
increment_times(counts, executor_id, n) ==
    IF n = 0 THEN counts
    ELSE increment_times(increment_running_task_count(counts, executor_id),
                         executor_id, n - 1)

RECURSIVE increment_for(_, _, _)
increment_for(counts, assignments, executors) ==
    IF executors = {} THEN counts
    ELSE LET e == CHOOSE x \in executors : TRUE
             n == Cardinality({ t \in DOMAIN assignments : assignments[t] = e })
         IN increment_for(increment_times(counts, e, n), assignments, executors \ {e})

apply_AssignTask(state, payload) ==
    LET assignments == payload.assignments
    IN [state EXCEPT
           !.unassigned_tasks = @ \ (DOMAIN assignments),
           !.executor_running_task_count =
               increment_for(@, assignments,
                             { assignments[t] : t \in DOMAIN assignments })]

RECURSIVE apply_CreateContent(_, _)
apply_CreateContent(state, content_metadata) ==
    IF content_metadata = <<>> THEN state
    ELSE LET content == Head(content_metadata)
         IN apply_CreateContent(
                [state EXCEPT
                    !.content_namespace_table =
                        MapSetInsert(@, content.namespace, content.id),
                    !.content_children_table =
                        ContentChildren_insert(@, content.parent_id, content.id)],
                Tail(content_metadata))

RECURSIVE insert_content_namespaces(_, _)
insert_content_namespaces(state, content_metadata) ==
    IF content_metadata = <<>> THEN state
    ELSE insert_content_namespaces(
             [state EXCEPT !.content_namespace_table =
                 MapSetInsert(@, Head(content_metadata).namespace,
                              Head(content_metadata).id)],
             Tail(content_metadata))

apply_UpdateTask(state, payload) ==
    LET finished ==
            IF payload.mark_finished
            THEN [state EXCEPT
                     !.unassigned_tasks = @ \ {payload.task.id},
                     !.unfinished_tasks_by_extractor =
                         MapSetRemove(@, payload.task.extractor, payload.task.id),
                     !.executor_running_task_count =
                         IF payload.executor_id # None
                         THEN decrement_running_task_count(@, Unwrap(payload.executor_id))
                         ELSE @]
            ELSE state
    IN insert_content_namespaces(finished, payload.content_metadata)

\* The `match request.payload` of apply.
apply_payload(state, payload) ==
    CASE payload.type = "RegisterExecutor" -> apply_RegisterExecutor(state, payload)
      [] payload.type = "CreateTasks" -> apply_CreateTasks(state, payload.tasks)
      [] payload.type = "AssignTask" -> apply_AssignTask(state, payload)
      [] payload.type = "CreateContent" ->
             apply_CreateContent(state, payload.content_metadata)
      [] payload.type = "UpdateTask" -> apply_UpdateTask(state, payload)
      [] payload.type = "MarkStateChangesProcessed" ->
             mark_state_changes_processed(state, payload.state_changes)
      [] OTHER -> state

apply(state, request) ==
    apply_payload(
        mark_state_changes_processed(
            insert_new_state_changes(state, request.new_state_changes),
            request.state_changes_processed),
        request.payload)

\* A faulty apply_state_machine_updates that writes the new state changes of
\* the envelope to the store outside the transaction: they stay when the apply
\* fails.
apply_state_machine_updates_exposing_state_changes(request, commit_ok, db, state) ==
    LET c0 == [txn |-> db, state |-> state, res |-> Ok, returned |-> FALSE]
        c1 == set_new_state_changes(c0, request.new_state_changes)
        c2 == set_processed_state_changes(c1, request.state_changes_processed)
        c3 == IF c2.res = Ok THEN dispatch(c2, request.payload, commit_ok) ELSE c2
    IN IF c3.res # Ok
       THEN [db |-> [db EXCEPT !.StateChanges = c1.txn.StateChanges],
             state |-> c3.state, res |-> c3.res]
       ELSE IF c3.returned
       THEN [db |-> c3.txn, state |-> c3.state, res |-> Ok]
       ELSE IF commit_ok
       THEN [db |-> c3.txn, state |-> apply(c3.state, request), res |-> Ok]
       ELSE [db |-> db, state |-> apply(c3.state, request),
             res |-> TransactionError("commit")]

\* A faulty apply_state_machine_updates that keeps the writes of the
\* transaction when a step fails.
apply_state_machine_updates_keeping_writes(request, commit_ok, db, state) ==
    LET c0 == [txn |-> db, state |-> state, res |-> Ok, returned |-> FALSE]
        c1 == set_new_state_changes(c0, request.new_state_changes)
        c2 == set_processed_state_changes(c1, request.state_changes_processed)
        c3 == IF c2.res = Ok THEN dispatch(c2, request.payload, commit_ok) ELSE c2
    IN IF c3.res # Ok
       THEN [db |-> c3.txn, state |-> c3.state, res |-> c3.res]
       ELSE IF c3.returned
       THEN [db |-> c3.txn, state |-> c3.state, res |-> Ok]
       ELSE IF commit_ok
       THEN [db |-> c3.txn, state |-> apply(c3.state, request), res |-> Ok]
       ELSE [db |-> db, state |-> apply(c3.state, request),
             res |-> TransactionError("commit")]

(***************************************************************************)
(* apply_state_machine_updates(request, db): the outcome [db, state, res]  *)
(* of one call on the committed store db and the IndexifyState state.      *)
(* commit_ok is the outcome of txn.commit().  On an error the transaction  *)
(* is dropped (db is unchanged); the reverse-index writes made before the  *)
(* error stay.                                                             *)
(***************************************************************************)
apply_state_machine_updates(request, commit_ok, db, state) ==
    LET c0 == [txn |-> db, state |-> state, res |-> Ok, returned |-> FALSE]
        c1 == set_new_state_changes(c0, request.new_state_changes)
        c2 == set_processed_state_changes(c1, request.state_changes_processed)
        c3 == IF c2.res = Ok THEN dispatch(c2, request.payload, commit_ok) ELSE c2
    IN IF c3.res # Ok
       THEN [db |-> db, state |-> c3.state, res |-> c3.res]
       ELSE IF c3.returned
       THEN [db |-> c3.txn, state |-> c3.state, res |-> Ok]
       ELSE IF commit_ok
       THEN [db |-> c3.txn, state |-> apply(c3.state, request), res |-> Ok]
       ELSE [db |-> db, state |-> apply(c3.state, request),
             res |-> TransactionError("commit")]

(***************************************************************************)
(* The state: the committed store, the IndexifyState, and the last         *)
(* request given to apply_state_machine_updates with what it returned.     *)
(***************************************************************************)
VARIABLES db, state, request, result

vars == <<db, state, request, result>>

\* StateMachineUpdateRequest
Request(new_state_changes, state_changes_processed, payload) ==
    [new_state_changes |-> new_state_changes,
     state_changes_processed |-> state_changes_processed,
     payload |-> payload]

\* A request with an empty envelope.
Bare(payload) == Request(<<>>, <<>>, payload)

NoRequest == Bare([type |-> "None"])

Init ==
    /\ db = EmptyDb
    /\ state = DefaultState
    /\ request = NoRequest
    /\ result = Ok

\* No counter of the outcome exceeds MaxCount.
WithinCount(st) ==
    \A e \in DOMAIN st.executor_running_task_count :
        st.executor_running_task_count[e] <= MaxCount

\* One call of apply_state_machine_updates (calls are made one at a time: the
\* method takes &mut self).  The behaviours are the sequences of successful
\* calls: a call is made only while every call so far returned Ok, so a state
\* whose result is not Ok is the outcome of a failed last call and has no
\* successor.
Apply(req, commit_ok) ==
    LET out == apply_state_machine_updates(req, commit_ok, db, state)
    IN /\ WithinCount(out.state)
       /\ db' = out.db
       /\ state' = out.state
       /\ request' = req
       /\ result' = out.res

(***************************************************************************)
(* Requests.                                                               *)
(***************************************************************************)
Tasks == [id : TaskIds, extractor : ExtractorNames]

\* One request creates both tasks.
CreateTasksPayloads ==
    { [type |-> "CreateTasks", tasks |-> <<t1, t2>>] :
        t1 \in { t \in Tasks : t.id = "t1" }, t2 \in { t \in Tasks : t.id = "t2" } }

\* Every assignment of a non-empty set of tasks to executors.
AssignTaskPayloads ==
    { [type |-> "AssignTask", assignments |-> a] :
        a \in UNION { [T -> ExecutorIds] : T \in (SUBSET TaskIds) \ {{}} } }

\* UpdateTask finishing task t1, carrying no content, with or without the
\* executor that ran it.
UpdateTaskPayloads ==
    { [type |-> "UpdateTask", task |-> t, mark_finished |-> TRUE,
       executor_id |-> e, content_metadata |-> <<>>] :
        t \in { x \in Tasks : x.id = "t1" },
        e \in {None} \cup { Some(x) : x \in ExecutorIds } }

RegisterExecutorPayloads ==
    { [type |-> "RegisterExecutor", executor_id |-> e, extractor |-> [name |-> x]] :
        e \in ExecutorIds, x \in ExtractorNames }

RemoveExecutorPayloads ==
    { [type |-> "RemoveExecutor", executor_id |-> e] : e \in ExecutorIds }

(***************************************************************************)
(* SpecTasks: executors and tasks.                                         *)
(***************************************************************************)
RegisterExecutor ==
    /\ result = Ok
    /\ \E p \in RegisterExecutorPayloads : Apply(Bare(p), TRUE)

RemoveExecutor ==
    /\ result = Ok
    /\ \E p \in RemoveExecutorPayloads : Apply(Bare(p), TRUE)

CreateTasks ==
    /\ result = Ok
    /\ \E p \in CreateTasksPayloads : Apply(Bare(p), TRUE)

AssignTask ==
    /\ result = Ok
    /\ \E p \in AssignTaskPayloads : Apply(Bare(p), TRUE)

UpdateTask ==
    /\ result = Ok
    /\ \E p \in UpdateTaskPayloads : Apply(Bare(p), TRUE)


NextTasks ==
    \/ RegisterExecutor
    \/ RemoveExecutor
    \/ CreateTasks
    \/ AssignTask
    \/ UpdateTask

SpecTasks == Init /\ [][NextTasks]_vars

(***************************************************************************)
(* SpecContent: the content tree.                                          *)
(***************************************************************************)
ContentMetadataIds == [id : ContentIds, version : Versions]

\* The requests build trees in which "p" is a root and "c" is derived from
\* "p"; the parent version a request carries is any version.
RequestParentIds(id) ==
    IF id = "p" THEN {NoParent} ELSE [id : {"p"}, version : Versions]

\* The ContentMetadata a request may carry: not tombstoned.
ContentMetadatas ==
    { cm \in [id : ContentMetadataIds,
              parent_id : {NoParent} \cup ContentMetadataIds,
              namespace : Namespaces,
              tombstoned : {FALSE}] : cm.parent_id \in RequestParentIds(cm.id.id) }

\* New content starts at version 1.
NewContentMetadatas == { cm \in ContentMetadatas : cm.id.version = 1 }

CreateContentPayloads ==
    { [type |-> "CreateContent", content_metadata |-> <<cm>>] :
        cm \in NewContentMetadatas }

\* An UpdateContent entry re-versions a content: the new content has the id of
\* the old key and the next version.
UpdateContentEntries ==
    { [old_content_key |-> ContentKey(e[1]), new_content_data |-> e[2]] :
        e \in { x \in ContentMetadataIds \X ContentMetadatas :
                   x[2].id.id = x[1].id /\ x[2].id.version = x[1].version + 1 } }

UpdateContentPayloads ==
    { [type |-> "UpdateContent", updated_content |-> <<entry>>] :
        entry \in UpdateContentEntries }

TombstoneContentTreePayloads ==
    { [type |-> "TombstoneContentTree", content_ids |-> {root}] :
        root \in ContentMetadataIds }

\* The garbage collection task of the derived content and of the root.
GarbageCollectionTasks ==
    { [id |-> g, content_id |-> "c", parent_content_id |-> "p"] : g \in GcTaskIds }
    \cup { [id |-> g, content_id |-> "p", parent_content_id |-> ""] : g \in GcTaskIds }

UpdateGarbageCollectionTaskPayloads ==
    { [type |-> "UpdateGarbageCollectionTask", gc_task |-> g, mark_finished |-> f] :
        g \in GarbageCollectionTasks, f \in BOOLEAN }

\* UpdateTask of the unfinished task t1, carrying the content it produced.
UpdateTaskContentPayloads ==
    { [type |-> "UpdateTask", task |-> t, mark_finished |-> FALSE,
       executor_id |-> None, content_metadata |-> <<cm>>] :
        t \in { x \in Tasks : x.id = "t1" },
        cm \in { x \in NewContentMetadatas : x.id.id = "c" } }

CreateContent ==
    /\ result = Ok
    /\ \E p \in CreateContentPayloads : Apply(Bare(p), TRUE)

UpdateContent ==
    /\ result = Ok
    /\ \E p \in UpdateContentPayloads : Apply(Bare(p), TRUE)

TombstoneContentTree ==
    /\ result = Ok
    /\ \E p \in TombstoneContentTreePayloads : Apply(Bare(p), TRUE)

UpdateGarbageCollectionTask ==
    /\ result = Ok
    /\ \E p \in UpdateGarbageCollectionTaskPayloads : Apply(Bare(p), TRUE)

UpdateTaskContent ==
    /\ result = Ok
    /\ \E p \in UpdateTaskContentPayloads : Apply(Bare(p), TRUE)

\* SpecContent: content is created, re-versioned and tombstoned.
NextContent ==
    \/ CreateContent
    \/ UpdateContent
    \/ TombstoneContentTree
    \/ UpdateTaskContent

SpecContent == Init /\ [][NextContent]_vars

\* SpecGarbage: content is created, re-versioned and garbage collected.
NextGarbage ==
    \/ CreateContent
    \/ UpdateContent
    \/ UpdateGarbageCollectionTask

SpecGarbage == Init /\ [][NextGarbage]_vars

(***************************************************************************)
(* SpecStateChanges: requests that carry state changes in their envelope.  *)
(***************************************************************************)
\* A new state change has not been processed.
NewStateChanges == [id : StateChangeIds, processed_at : {None}]

StateChangesProcessed ==
    [state_change_id : StateChangeIds, processed_at : ProcessedAtTimes]

\* new_state_changes and state_changes_processed of a request: at most one each.
NewStateChangeLists == {<<>>} \cup { <<change>> : change \in NewStateChanges }

StateChangeProcessedLists == {<<>>} \cup { <<change>> : change \in StateChangesProcessed }

MarkStateChangesProcessedPayloads ==
    { [type |-> "MarkStateChangesProcessed", state_changes |-> <<change>>] :
        change \in StateChangesProcessed }

RegisterExecutorWithStateChanges ==
    /\ result = Ok
    /\ \E p \in RegisterExecutorPayloads, new \in NewStateChangeLists,
          processed \in StateChangeProcessedLists :
          Apply(Request(new, processed, p), TRUE)

RemoveExecutorWithStateChanges ==
    /\ result = Ok
    /\ \E p \in RemoveExecutorPayloads, new \in NewStateChangeLists,
          processed \in StateChangeProcessedLists :
          Apply(Request(new, processed, p), TRUE)

MarkStateChangesProcessed ==
    /\ result = Ok
    /\ \E p \in MarkStateChangesProcessedPayloads, new \in NewStateChangeLists :
          Apply(Request(new, <<>>, p), TRUE)

NextStateChanges ==
    \/ RegisterExecutorWithStateChanges
    \/ RemoveExecutorWithStateChanges
    \/ MarkStateChangesProcessed

SpecStateChanges == Init /\ [][NextStateChanges]_vars

(***************************************************************************)
(* Properties.                                                             *)
(***************************************************************************)
\* The value read from executor_running_task_count: 0 for an absent executor.
RunningTaskCount(e) ==
    IF e \in DOMAIN state.executor_running_task_count
    THEN state.executor_running_task_count[e]
    ELSE 0

\* The content row stored at a ContentMetadataId, if any.
HasRow(txn, cid) == ContentKey(cid) \in DOMAIN txn.ContentTable
Row(txn, cid) == txn.ContentTable[ContentKey(cid)]

\* Every ContentMetadataId a state mentions.
MentionedContentIds ==
    ContentMetadataIds
    \cup { KeyToContentId(k) : k \in DOMAIN db.ContentTable }
    \cup DOMAIN state.content_children_table
    \cup UNION { state.content_children_table[k] : k \in DOMAIN state.content_children_table }

\* The ids reachable from the ids in frontier through content_children.
RECURSIVE Descendants(_, _, _)
Descendants(children, seen, frontier) ==
    IF frontier \subseteq seen THEN seen
    ELSE Descendants(children, seen \cup frontier,
                     UNION { get_children(children, id) : id \in frontier })

\* C1: after successful applies, executor_running_task_count[e] is the number
\* of task ids in the persisted TaskAssignments[e], for every executor e.
C1_RunningCountIsAssignmentCount ==
    result = Ok =>
        \A e \in ExecutorIds :
            RunningTaskCount(e) = Cardinality(get_task_assignments_for_executor(db, e))

\* C2: after successful applies, a task with a Tasks row is in unassigned_tasks
\* exactly when it is in no TaskAssignments value; in particular no task with a
\* Tasks row is at the same time in unassigned_tasks and in the assignment set
\* of an executor.  The formula is that particular case.
C2_NeverUnassignedAndAssigned ==
    result = Ok =>
        \A t \in DOMAIN db.Tasks :
            ~ /\ t \in state.unassigned_tasks
              /\ \E e \in DOMAIN db.TaskAssignments : t \in db.TaskAssignments[e]

\* C3: after successful applies of any payload variant, a state-change id is in
\* unprocessed_state_changes exactly when its StateChanges row has
\* processed_at = None.
C3_UnprocessedIffRowUnprocessed ==
    result = Ok =>
        \A id \in StateChangeIds :
            (id \in state.unprocessed_state_changes)
                <=> /\ id \in DOMAIN db.StateChanges
                    /\ db.StateChanges[id].processed_at = None

\* C4: after successful applies, every ContentId that is a child in
\* content_children has a ContentTable row at exactly that id and version.
C4_ChildrenHaveRows ==
    result = Ok =>
        \A parent \in DOMAIN state.content_children_table :
            \A child \in state.content_children_table[parent] : HasRow(db, child)

\* C5: in every state reached by successful applies, every content reachable
\* through content_children from a tombstoned row has a tombstoned row.
C5_TombstoneReachesDescendants ==
    result = Ok =>
        \A k \in DOMAIN db.ContentTable :
            db.ContentTable[k].tombstoned =>
                \A d \in Descendants(state.content_children_table, {}, {KeyToContentId(k)}) :
                    HasRow(db, d) /\ Row(db, d).tombstoned

\* C6: in every state reached by successful applies, the parent of every row
\* with a non-empty parent id exists, and its latest version is at least the
\* parent version the row stores.
C6_ParentExistsAtStoredVersion ==
    result = Ok =>
        \A k \in DOMAIN db.ContentTable :
            LET parent_id == db.ContentTable[k].parent_id
                latest == get_latest_version_of_content(db, parent_id.id)
            IN parent_id.id # "" => (latest # 0 /\ latest >= parent_id.version)

\* C7: after a committed apply, content_children is the relation derived from
\* ContentTable: child is in content_children[parent] exactly when the row of
\* child exists and stores parent, a non-empty id, as its parent_id.
C7_ChildrenDerivedFromRows ==
    result = Ok =>
        \A parent \in MentionedContentIds \cup {NoParent} :
            \A child \in MentionedContentIds :
                (child \in get_children(state.content_children_table, parent))
                    <=> /\ HasRow(db, child)
                        /\ Row(db, child).parent_id = parent
                        /\ parent.id # ""

\* The last call was a successful UpdateGarbageCollectionTask with
\* mark_finished = true (in the state after the call).
GcFinished ==
    /\ result = Ok
    /\ request.payload.type = "UpdateGarbageCollectionTask"
    /\ request.payload.mark_finished

\* C8: a successful UpdateGarbageCollectionTask with mark_finished = true for
\* content id C and parent id P deletes the row of C at the version that was
\* latest before the call, and removes that ContentId from the children of P at
\* the latest version of P.
C8_GcDeletesRowAndEdge ==
    [][ GcFinished' =>
          LET gc_task == request'.payload.gc_task
              content == [id |-> gc_task.content_id,
                          version |-> get_latest_version_of_content(db, gc_task.content_id)]
              parent == [id |-> gc_task.parent_content_id,
                         version |-> get_latest_version_of_content(
                                         db', gc_task.parent_content_id)]
          IN /\ ~HasRow(db', content)
             /\ content \notin get_children(state'.content_children_table, parent)
      ]_vars

\* The last call was a successful UpdateContent (in the state after the call).
ContentUpdated ==
    /\ result = Ok
    /\ request.payload.type = "UpdateContent"

\* C9: a successful UpdateContent of old key K_old to new content K_new writes
\* the row of K_new as given, leaves the row of K_old in place, gives every
\* child of K_old the parent_id K_new, moves the children set from key K_old
\* to key K_new (K_old is no longer a key), and replaces K_old by K_new in the
\* content_namespace_table entry of the namespace.
C9_UpdateContentRewires ==
    [][ ContentUpdated' =>
          LET entry == request'.payload.updated_content[1]
              K_old == KeyToContentId(entry.old_content_key)
              K_new == entry.new_content_data.id
              namespace == entry.new_content_data.namespace
              children == get_children(state.content_children_table, K_old)
          IN /\ HasRow(db', K_new) /\ Row(db', K_new) = entry.new_content_data
             /\ HasRow(db, K_old) => (HasRow(db', K_old) /\ Row(db', K_old) = Row(db, K_old))
             /\ \A child \in children :
                    HasRow(db', child) /\ Row(db', child).parent_id = K_new
             /\ K_old \notin DOMAIN state'.content_children_table
             /\ K_new \in DOMAIN state'.content_children_table
             /\ state'.content_children_table[K_new] = children
             /\ K_old \notin state'.content_namespace_table[namespace]
             /\ K_new \in state'.content_namespace_table[namespace]
      ]_vars

\* A successful UpdateContent of a content that has a row and children.
C9_Witness ==
    /\ ContentUpdated
    /\ LET entry == request.payload.updated_content[1]
       IN /\ HasRow(db, KeyToContentId(entry.old_content_key))
          /\ get_children(state.content_children_table, entry.new_content_data.id) # {}

\* The last call was a successful CreateContent or UpdateTask (in the state
\* after the call).
ContentStored ==
    /\ result = Ok
    /\ request.payload.type \in {"CreateContent", "UpdateTask"}

\* C10: when CreateContent or UpdateTask stores a content with a non-empty
\* parent id, the row's parent_id.version is the latest version of that parent
\* at the time of the call, whatever version the request carried.
C10_StoredParentVersionIsLatest ==
    [][ ContentStored' =>
          \A i \in DOMAIN request'.payload.content_metadata :
              LET content == request'.payload.content_metadata[i]
              IN content.parent_id.id # "" =>
                    /\ HasRow(db', content.id)
                    /\ Row(db', content.id).parent_id =
                           [id |-> content.parent_id.id,
                            version |-> get_latest_version_of_content(
                                            db, content.parent_id.id)]
      ]_vars

\* A successful UpdateTask stored a content whose request carried another
\* parent version than the one now in the row.
C10_Witness ==
    /\ result = Ok
    /\ request.payload.type = "UpdateTask"
    /\ \E i \in DOMAIN request.payload.content_metadata :
          LET content == request.payload.content_metadata[i]
          IN /\ content.parent_id.id # ""
             /\ HasRow(db, content.id)
             /\ Row(db, content.id).parent_id.version # content.parent_id.version

(***************************************************************************)
(* SpecCreateContent: content is created, one or two to a request, and     *)
(* re-versioned.                                                           *)
(***************************************************************************)
\* CreateContent carrying two contents of different ids, in either order.
CreateContentBatchPayloads ==
    { [type |-> "CreateContent", content_metadata |-> <<pair[1], pair[2]>>] :
        pair \in { x \in NewContentMetadatas \X NewContentMetadatas :
                     x[1].id.id # x[2].id.id } }

CreateContentBatch ==
    /\ result = Ok
    /\ \E p \in CreateContentBatchPayloads : Apply(Bare(p), TRUE)

NextCreateContent ==
    \/ CreateContent
    \/ CreateContentBatch
    \/ UpdateContent

SpecCreateContent == Init /\ [][NextCreateContent]_vars

\* The request names, in some content, a non-empty parent id that has no row
\* at any version in txn.
NamesMissingParent(txn, req) ==
    /\ req.payload.type = "CreateContent"
    /\ \E i \in DOMAIN req.payload.content_metadata :
          LET parent_id == req.payload.content_metadata[i].parent_id
          IN /\ parent_id.id # ""
             /\ \A k \in DOMAIN txn.ContentTable : KeyToContentId(k).id # parent_id.id

\* C11: a CreateContent that names a non-empty parent id with no row at any
\* version fails with DatabaseError "Parent content not found"; no content row
\* of the request is persisted (the store is unchanged) and no reverse index
\* gains an entry (the reverse indexes are unchanged).
C11_MissingParentFailsCleanly ==
    [][ NamesMissingParent(db, request') =>
          /\ result' = DatabaseError("Parent content not found")
          /\ db' = db
          /\ state' = state
      ]_vars

\* A CreateContent of two contents failed: the first has no parent, the second
\* names a parent id with no row.
C11_Witness ==
    /\ result = DatabaseError("Parent content not found")
    /\ request.payload.type = "CreateContent"
    /\ Len(request.payload.content_metadata) = 2
    /\ request.payload.content_metadata[1].parent_id.id = ""
    /\ NamesMissingParent(db, request)

\* The last call was a successful TombstoneContentTree (in the state after the
\* call).
TreeTombstoned ==
    /\ result = Ok
    /\ request.payload.type = "TombstoneContentTree"

\* C12: a successful TombstoneContentTree with root set R (and an empty
\* envelope) sets tombstoned = true on the row of every ContentId reachable
\* from R through content_children, roots included; it changes no other field
\* of those rows, no other content row, no other column family and none of
\* the ten reverse indexes.
C12_TombstoneFrame ==
    [][ TreeTombstoned' =>
          LET reach == Descendants(state.content_children_table, {},
                                   request'.payload.content_ids)
          IN /\ \A id \in reach : HasRow(db, id)
             /\ db' = [db EXCEPT !.ContentTable =
                          [k \in DOMAIN db.ContentTable |->
                              IF KeyToContentId(k) \in reach
                              THEN [db.ContentTable[k] EXCEPT !.tombstoned = TRUE]
                              ELSE db.ContentTable[k]]]
             /\ state' = state
      ]_vars

\* A successful TombstoneContentTree whose root had a child that was not
\* tombstoned before: the child's row is tombstoned now, next to a row that
\* is not.
C12_Witness ==
    /\ TreeTombstoned
    /\ \E root \in request.payload.content_ids :
          \E child \in get_children(state.content_children_table, root) :
              /\ child # root
              /\ HasRow(db, child) /\ Row(db, child).tombstoned
    /\ \E k \in DOMAIN db.ContentTable : ~db.ContentTable[k].tombstoned

\* C13: applying TombstoneContentTree a second time with the same roots, with
\* no apply in between, succeeds and leaves the persistent store and the
\* reverse indexes as the first apply left them.
C13_TombstoneIdempotent ==
    TreeTombstoned =>
        LET again == apply_state_machine_updates(request, TRUE, db, state)
        IN /\ again.res = Ok
           /\ again.db = db
           /\ again.state = state

\* A TombstoneContentTree has just tombstoned a root that has a row and a
\* child, in a store that holds a row it did not reach.
C13_Witness ==
    /\ TreeTombstoned
    /\ \E root \in request.payload.content_ids :
          /\ HasRow(db, root) /\ Row(db, root).tombstoned
          /\ get_children(state.content_children_table, root) # {}
    /\ \E k \in DOMAIN db.ContentTable : ~db.ContentTable[k].tombstoned

(***************************************************************************)
(* SpecLatestVersion: root contents are stored at one-digit and two-digit  *)
(* versions.                                                               *)
(***************************************************************************)
\* Versions 1 and 2, and the three versions up to MaxStoredVersion.
StoredVersions == {1, 2} \cup ((MaxStoredVersion - 2)..MaxStoredVersion)

CreateContentAtVersionPayloads ==
    { [type |-> "CreateContent",
       content_metadata |-> << [id |-> [id |-> c, version |-> v],
                                parent_id |-> NoParent,
                                namespace |-> n,
                                tombstoned |-> FALSE] >>] :
        c \in ContentIds, v \in StoredVersions, n \in Namespaces }

CreateContentAtVersion ==
    /\ result = Ok
    /\ \E p \in CreateContentAtVersionPayloads : Apply(Bare(p), TRUE)

NextLatestVersion == CreateContentAtVersion

SpecLatestVersion == Init /\ [][NextLatestVersion]_vars

\* The versions at which content id C has a row.
RowVersions(C) ==
    { v \in 1..MaxStoredVersion : HasRow(db, [id |-> C, version |-> v]) }

\* C14: get_latest_version_of_content(C) is the numerically greatest version
\* at which C has a ContentTable row, and 0 exactly when C has no row; the
\* rows of other content ids do not enter the result.
C14_LatestVersionIsNumericMax ==
    \A C \in ContentIds :
        LET latest == get_latest_version_of_content(db, C)
        IN /\ (latest = 0) <=> (RowVersions(C) = {})
           /\ latest # 0 =>
                 /\ latest \in RowVersions(C)
                 /\ \A v \in RowVersions(C) : v <= latest

\* Content "p" has rows at version 2 and at a two-digit version, and content
\* "c" has a row at a greater version than any of "p".
C14_Witness ==
    /\ 2 \in RowVersions("p")
    /\ \E v \in RowVersions("p") : v >= 10
    /\ \E w \in RowVersions("c") : \A v \in RowVersions("p") : w > v

(***************************************************************************)
(* Snapshots of the reverse indexes.                                       *)
(***************************************************************************)
\* build_snapshot: each field of the snapshot is a clone of one reverse index.
build_snapshot(self) ==
    [unassigned_tasks |-> self.unassigned_tasks,
     unprocessed_state_changes |-> self.unprocessed_state_changes,
     content_namespace_table |-> self.content_namespace_table,
     extraction_policies_table |-> self.extraction_policies_table,
     extractor_executors_table |-> self.extractor_executors_table,
     namespace_index_table |-> self.namespace_index_table,
     unfinished_tasks_by_extractor |-> self.unfinished_tasks_by_extractor,
     executor_running_task_count |-> self.executor_running_task_count,
     schemas_by_namespace |-> self.schemas_by_namespace,
     content_children_table |-> self.content_children_table]

\* A faulty install_snapshot that leaves the running task counts of the
\* receiving state machine in place.
install_snapshot_without_counts(self, snapshot) ==
    [self EXCEPT
        !.unassigned_tasks = snapshot.unassigned_tasks,
        !.unprocessed_state_changes = snapshot.unprocessed_state_changes,
        !.content_namespace_table = snapshot.content_namespace_table,
        !.extraction_policies_table = snapshot.extraction_policies_table,
        !.extractor_executors_table = snapshot.extractor_executors_table,
        !.namespace_index_table = snapshot.namespace_index_table,
        !.unfinished_tasks_by_extractor = snapshot.unfinished_tasks_by_extractor,
        !.schemas_by_namespace = snapshot.schemas_by_namespace,
        !.content_children_table = snapshot.content_children_table]

\* install_snapshot: each reverse index of self is replaced by the snapshot's
\* field of the same name.
install_snapshot(self, snapshot) ==
    [self EXCEPT
        !.unassigned_tasks = snapshot.unassigned_tasks,
        !.unprocessed_state_changes = snapshot.unprocessed_state_changes,
        !.content_namespace_table = snapshot.content_namespace_table,
        !.extraction_policies_table = snapshot.extraction_policies_table,
        !.extractor_executors_table = snapshot.extractor_executors_table,
        !.namespace_index_table = snapshot.namespace_index_table,
        !.unfinished_tasks_by_extractor = snapshot.unfinished_tasks_by_extractor,
        !.executor_running_task_count = snapshot.executor_running_task_count,
        !.schemas_by_namespace = snapshot.schemas_by_namespace,
        !.content_children_table = snapshot.content_children_table]

UpdateContentMapEntries ==
    UpdateContentEntries
    \cup { [old_content_key |-> content_key("p", MaxVersion),
            new_content_data |-> [id |-> [id |-> "p", version |-> MaxVersion + 1],
                                  parent_id |-> NoParent,
                                  namespace |-> n,
                                  tombstoned |-> FALSE]] : n \in Namespaces }

\* The keys of a map are distinct.
UpdateContentMapPayloads ==
    { [type |-> "UpdateContent", updated_content |-> <<e[1], e[2]>>] :
        e \in { x \in UpdateContentMapEntries \X UpdateContentMapEntries :
                   x[1].old_content_key # x[2].old_content_key } }

UpdateContentMap ==
    /\ result = Ok
    /\ \E p \in UpdateContentMapPayloads : Apply(Bare(p), TRUE)

NextUpdateOrder ==
    \/ CreateContent
    \/ UpdateContent
    \/ UpdateContentMap

SpecUpdateOrder == Init /\ [][NextUpdateOrder]_vars

\* C16: apply is deterministic whatever the order in which a map-valued payload
\* is iterated: an UpdateContent with two entries leaves the same store, the
\* same reverse indexes and the same result when its entries are visited in
\* the other order.
C16_MapOrderIrrelevant ==
    [][ (request'.payload.type = "UpdateContent"
         /\ Len(request'.payload.updated_content) = 2) =>
          LET m == request'.payload.updated_content
              swapped == [request' EXCEPT !.payload.updated_content = <<m[2], m[1]>>]
              other == apply_state_machine_updates(swapped, TRUE, db, state)
          IN /\ other.res = result'
             /\ other.db = db'
             /\ other.state = state'
      ]_vars

(***************************************************************************)
(* The life of a task.                                                     *)
(***************************************************************************)
\* The TaskAssignments row of executor e (empty when there is no row).
AssignedTo(txn, e) ==
    IF e \in DOMAIN txn.TaskAssignments THEN txn.TaskAssignments[e] ELSE {}

\* executor_running_task_count holds the key e with value k.
CountIs(st, e, k) ==
    /\ e \in DOMAIN st.executor_running_task_count
    /\ st.executor_running_task_count[e] = k

\* The ids of the tasks of a CreateTasks payload.
CreatedTaskIds(payload) == { payload.tasks[i].id : i \in DOMAIN payload.tasks }

\* C17, creation: CreateTasks applied right after RegisterExecutor(e) succeeds
\* with every created task in unassigned_tasks and count[e] = 0.
LifecycleCreated ==
    (request.payload.type = "RegisterExecutor" /\ request'.payload.type = "CreateTasks") =>
        /\ result' = Ok
        /\ CreatedTaskIds(request'.payload) \subseteq state'.unassigned_tasks
        /\ CountIs(state', request.payload.executor_id, 0)

\* C17, assignment: AssignTask{t: e} applied where t is unassigned and
\* count[e] = 0 succeeds with t out of unassigned_tasks, count[e] = 1 and t in
\* TaskAssignments[e].
LifecycleAssigned ==
    \A t \in TaskIds, e \in ExecutorIds :
        (/\ request'.payload.type = "AssignTask"
         /\ DOMAIN request'.payload.assignments = {t}
         /\ request'.payload.assignments[t] = e
         /\ t \in state.unassigned_tasks
         /\ CountIs(state, e, 0)) =>
            /\ result' = Ok
            /\ t \notin state'.unassigned_tasks
            /\ CountIs(state', e, 1)
            /\ t \in AssignedTo(db', e)

\* C17, finish: UpdateTask(t, mark_finished, executor e) applied where
\* count[e] = 1 and t is in TaskAssignments[e] succeeds with t out of
\* TaskAssignments[e], count[e] = 0 and t out of
\* unfinished_tasks_by_extractor[E].
LifecycleFinished ==
    \A e \in ExecutorIds :
        (/\ request'.payload.type = "UpdateTask"
         /\ request'.payload.mark_finished
         /\ request'.payload.executor_id = Some(e)
         /\ request'.payload.task.id \in AssignedTo(db, e)
         /\ CountIs(state, e, 1)) =>
            /\ result' = Ok
            /\ e \in DOMAIN db'.TaskAssignments
            /\ request'.payload.task.id \notin db'.TaskAssignments[e]
            /\ CountIs(state', e, 0)
            /\ request'.payload.task.id \notin
                   MapGetOrDefault(state'.unfinished_tasks_by_extractor,
                                   request'.payload.task.extractor)

\* C17: the sequence RegisterExecutor(e), CreateTasks(t), AssignTask(t to e),
\* UpdateTask(t, mark_finished, executor e) passes through: t unassigned and
\* count[e] = 0 after the creation; t not unassigned, count[e] = 1 and t in
\* TaskAssignments[e] after the assignment; t not in TaskAssignments[e],
\* count[e] = 0 and t not in unfinished_tasks_by_extractor[E] after the finish.
\* Each step is taken from what the step before it established.
C17_TaskLifecycle ==
    [][LifecycleCreated /\ LifecycleAssigned /\ LifecycleFinished]_vars

\* The middle of a lifecycle: the registered executor ex1 was just assigned the
\* created task t1 alone, its count is 1, and the finish of t1 by ex1 is the
\* step that remains.
C17_Witness ==
    /\ result = Ok
    /\ request.payload.type = "AssignTask"
    /\ DOMAIN request.payload.assignments = {"t1"}
    /\ request.payload.assignments["t1"] = "ex1"
    /\ "ex1" \in DOMAIN db.Executors
    /\ "t1" \in DOMAIN db.Tasks
    /\ AssignedTo(db, "ex1") = {"t1"}
    /\ CountIs(state, "ex1", 1)
    /\ "t1" \notin state.unassigned_tasks
    /\ "t1" \in MapGetOrDefault(state.unfinished_tasks_by_extractor, "E")

(***************************************************************************)
(* Removal of an executor.                                                 *)
(***************************************************************************)
\* C18: a successful RemoveExecutor(e) deletes the Executors row and the
\* TaskAssignments row of e, puts every task id of TaskAssignments[e] into
\* unassigned_tasks, removes e from the executors of the extractor recorded in
\* its persisted row, and removes the key e from executor_running_task_count.
C18_RemoveExecutorReclaims ==
    [][ (request'.payload.type = "RemoveExecutor" /\ result' = Ok) =>
          LET e == request'.payload.executor_id
          IN /\ e \in DOMAIN db.Executors
             /\ e \notin DOMAIN db'.Executors
             /\ e \notin DOMAIN db'.TaskAssignments
             /\ AssignedTo(db, e) \subseteq state'.unassigned_tasks
             /\ e \notin MapGetOrDefault(state'.extractor_executors_table,
                                         db.Executors[e].extractor)
             /\ e \notin DOMAIN state'.executor_running_task_count
      ]_vars

\* An executor was just removed and task id t1 is unassigned although it is
\* not unfinished: CreateTasks files a task under both, and the finish of a
\* task takes it out of both, so t1 came into unassigned_tasks from the
\* TaskAssignments row of a removed executor.
C18_Witness ==
    /\ result = Ok
    /\ request.payload.type = "RemoveExecutor"
    /\ request.payload.executor_id \notin DOMAIN db.Executors
    /\ request.payload.executor_id \notin DOMAIN db.TaskAssignments
    /\ "t1" \in state.unassigned_tasks
    /\ "t1" \notin MapGetOrDefault(state.unfinished_tasks_by_extractor, "E")

\* C19: RemoveExecutor for an executor id that has no row in Executors returns
\* a DatabaseError and leaves the store and all ten reverse indexes unchanged.
C19_RemoveAbsentExecutorFails ==
    [][ (/\ request'.payload.type = "RemoveExecutor"
         /\ request'.payload.executor_id \notin DOMAIN db.Executors) =>
          /\ result'.kind = "DatabaseError"
          /\ db' = db
          /\ state' = state
      ]_vars

\* A RemoveExecutor of an executor without a row failed; its envelope carried a
\* new state change, of which the store has no row and unprocessed_state_changes
\* no id, while another executor is registered.
C19_Witness ==
    /\ result.kind = "DatabaseError"
    /\ request.payload.type = "RemoveExecutor"
    /\ request.payload.executor_id \notin DOMAIN db.Executors
    /\ DOMAIN db.Executors # {}
    /\ Len(request.new_state_changes) = 1
    /\ request.new_state_changes[1].id \notin DOMAIN db.StateChanges
    /\ request.new_state_changes[1].id \notin state.unprocessed_state_changes

(***************************************************************************)
(* SpecFailure: applies that return an error, because a step before the    *)
(* commit fails or because the commit fails.                               *)
(***************************************************************************)
\* UpdateTask finishing task t1 for an executor, carrying a derived content
\* whose parent has no row (no request of this specification creates "p").
UpdateTaskMissingParentPayloads ==
    { [type |-> "UpdateTask", task |-> t, mark_finished |-> TRUE,
       executor_id |-> Some(e), content_metadata |-> <<cm>>] :
        t \in { x \in Tasks : x.id = "t1" },
        e \in ExecutorIds,
        cm \in { x \in NewContentMetadatas : x.id.id = "c" } }

UpdateTaskMissingParent ==
    /\ result = Ok
    /\ \E p \in UpdateTaskMissingParentPayloads : Apply(Bare(p), TRUE)

\* A CreateTasks whose txn.commit() fails.
CreateTasksCommitFails ==
    /\ result = Ok
    /\ \E p \in CreateTasksPayloads : Apply(Bare(p), FALSE)

NextFailure ==
    \/ RegisterExecutor
    \/ CreateTasks
    \/ AssignTask
    \/ UpdateTaskMissingParent
    \/ CreateTasksCommitFails

SpecFailure == Init /\ [][NextFailure]_vars

C21_FailedApplyKeepsStore ==
    [][ result' # Ok => db' = db ]_vars

\* A MarkStateChangesProcessed failed; its envelope carried a new state change
\* that has no row in the store.
C21_Witness ==
    /\ result # Ok
    /\ request.payload.type = "MarkStateChangesProcessed"
    /\ Len(request.new_state_changes) = 1
    /\ request.new_state_changes[1].id \notin DOMAIN db.StateChanges

(***************************************************************************)
(* The running-task counter.                                               *)
(***************************************************************************)
\* The counter map m agrees with counts except that executor e has value k.
CountsWith(m, counts, e, k) ==
    /\ DOMAIN m = DOMAIN counts \cup {e}
    /\ m[e] = k
    /\ \A x \in DOMAIN counts \ {e} : m[x] = counts[x]

\* C22: on the counter map of every reachable state, for every executor,
\* increment_running_task_count turns n into n + 1 and an absent executor into
\* 1; decrement_running_task_count turns n > 0 into n - 1, leaves 0 at 0 and
\* inserts an absent executor at 0; and no counter is below zero.
C22_CounterStepsByOne ==
    LET counts == state.executor_running_task_count
    IN /\ \A e \in DOMAIN counts : counts[e] >= 0
       /\ \A e \in ExecutorIds :
            LET inc == increment_running_task_count(counts, e)
                dec == decrement_running_task_count(counts, e)
            IN IF e \notin DOMAIN counts
               THEN CountsWith(inc, counts, e, 1) /\ CountsWith(dec, counts, e, 0)
               ELSE /\ CountsWith(inc, counts, e, counts[e] + 1)
                    /\ CountsWith(dec, counts, e,
                                  IF counts[e] > 0 THEN counts[e] - 1 ELSE 0)

\* A task was just finished for an executor whose counter is 0 while the other
\* executor has a positive counter: the decrement acted, and the three cases
\* of the counter (positive, zero, absent in the initial state) are met.
C22_Witness ==
    /\ result = Ok
    /\ request.payload.type = "UpdateTask"
    /\ request.payload.executor_id # None
    /\ CountIs(state, Unwrap(request.payload.executor_id), 0)
    /\ \E e \in DOMAIN state.executor_running_task_count :
          state.executor_running_task_count[e] > 0

\* C23: a successful UpdateTask with mark_finished = true and executor_id = e
\* lowers executor_running_task_count[e] by exactly one when it was positive.
C23_FinishLowersCountByOne ==
    [][ \A e \in ExecutorIds :
          (/\ request'.payload.type = "UpdateTask"
           /\ request'.payload.mark_finished
           /\ request'.payload.executor_id = Some(e)
           /\ result' = Ok
           /\ e \in DOMAIN state.executor_running_task_count
           /\ state.executor_running_task_count[e] > 0) =>
              CountIs(state', e, state.executor_running_task_count[e] - 1)
      ]_vars

(***************************************************************************)
(* Garbage collection tasks.                                               *)
(***************************************************************************)
\* C24: a successful UpdateGarbageCollectionTask persists the given gc_task row
\* in GarbageCollectionTasks whether mark_finished is true or false; content
\* is deleted and an edge removed only when mark_finished is true.
C24_GcTaskRowPersisted ==
    [][ (request'.payload.type = "UpdateGarbageCollectionTask" /\ result' = Ok) =>
          LET gc_task == request'.payload.gc_task
          IN /\ gc_task.id \in DOMAIN db'.GarbageCollectionTasks
             /\ db'.GarbageCollectionTasks[gc_task.id] = gc_task
             /\ ~request'.payload.mark_finished =>
                   /\ db'.ContentTable = db.ContentTable
                   /\ state'.content_children_table = state.content_children_table
      ]_vars

(***************************************************************************)
(* SpecRemoveSteps: the RemoveExecutor arm, one step at a time.  The store *)
(* and the reverse indexes are shared with readers, who may look at them   *)
(* between any two steps of the arm.  While a RemoveExecutor is in flight, *)
(* `result` holds the position of the call and its locals (the executor    *)
(* read by delete_executor and the task ids read by                        *)
(* delete_task_assignments_for_executor).                                  *)
(***************************************************************************)
InFlight(pc, executor_meta, task_ids) ==
    [kind |-> "InFlight", msg |-> "", pc |-> pc,
     executor_meta |-> executor_meta, task_ids |-> task_ids]

AtStep(pc) == result.kind = "InFlight" /\ result.pc = pc

\* A faulty first step: the executor is taken out of extractor_executors_table
\* and nothing is committed yet.
RemoveExecutorMutateBeforeCommit ==
    /\ result = Ok
    /\ \E p \in RemoveExecutorPayloads :
          /\ p.executor_id \in DOMAIN db.Executors
          /\ state' = [state EXCEPT !.extractor_executors_table =
                          MapSetRemove(@, db.Executors[p.executor_id].extractor,
                                       p.executor_id)]
          /\ result' = InFlight("committed", db.Executors[p.executor_id],
                                task_assignments_to_delete(db, p.executor_id))
          /\ request' = Bare(p)
          /\ db' = db

\* delete_executor and delete_task_assignments_for_executor write into the
\* transaction, which txn.commit() makes visible; a request for an executor
\* without a row returns the error of delete_executor.
RemoveExecutorCommit ==
    /\ result = Ok
    /\ \E p \in RemoveExecutorPayloads :
          LET c0 == [txn |-> db, state |-> state, res |-> Ok, returned |-> FALSE]
              c1 == delete_executor(c0, p.executor_id)
              c2 == delete_task_assignments_for_executor(c1, p.executor_id)
          IN /\ request' = Bare(p)
             /\ state' = state
             /\ IF c1.res # Ok
                THEN db' = db /\ result' = c1.res
                ELSE /\ db' = c2.txn
                     /\ result' = InFlight("committed",
                                           executor_to_delete(db, p.executor_id),
                                           task_assignments_to_delete(c1.txn, p.executor_id))

\* The whole call when txn.commit() fails.
RemoveExecutorCommitFails ==
    /\ result = Ok
    /\ \E p \in RemoveExecutorPayloads : Apply(Bare(p), FALSE)

RemoveFromExtractorExecutors ==
    /\ AtStep("committed")
    /\ state' = [state EXCEPT !.extractor_executors_table =
                    MapSetRemove(@, result.executor_meta.extractor,
                                 result.executor_meta.id)]
    /\ result' = [result EXCEPT !.pc = "extractor_removed"]
    /\ UNCHANGED <<db, request>>

PutTasksIntoUnassigned ==
    /\ AtStep("extractor_removed")
    /\ state' = [state EXCEPT !.unassigned_tasks = @ \cup result.task_ids]
    /\ result' = [result EXCEPT !.pc = "tasks_unassigned"]
    /\ UNCHANGED <<db, request>>

RemoveFromRunningTaskCount ==
    /\ AtStep("tasks_unassigned")
    /\ state' = [state EXCEPT !.executor_running_task_count =
                    MapDel(@, request.payload.executor_id)]
    /\ result' = Ok
    /\ UNCHANGED <<db, request>>

NextRemoveSteps ==
    \/ RegisterExecutor
    \/ AssignTask
    \/ RemoveExecutorCommit
    \/ RemoveExecutorCommitFails
    \/ RemoveFromExtractorExecutors
    \/ PutTasksIntoUnassigned
    \/ RemoveFromRunningTaskCount

SpecRemoveSteps == Init /\ [][NextRemoveSteps]_vars

\* What a reader sees at one instant: every executor with a row in Executors is
\* in extractor_executors_table under its extractor and has a key in
\* executor_running_task_count.
ReaderSeesExecutors ==
    \A e \in DOMAIN db.Executors :
        /\ e \in MapGetOrDefault(state.extractor_executors_table, db.Executors[e].extractor)
        /\ e \in DOMAIN state.executor_running_task_count

\* C25: RemoveExecutor commits the store transaction before it mutates any
\* reverse index: when the commit fails no reverse index has changed, and at
\* every point between the steps of the arm a reader that sees the executor in
\* Executors sees it in extractor_executors_table and in
\* executor_running_task_count.
C25_CommitBeforeReverseWrites ==
    /\ []ReaderSeesExecutors
    /\ [][ (request'.payload.type = "RemoveExecutor"
            /\ result'.kind = "TransactionError") => state' = state ]_vars
    /\ [][ (result = Ok /\ request'.payload.type = "RemoveExecutor"
            /\ db' = db) => state' = state ]_vars

\* A RemoveExecutor is between its commit and its reverse-index writes: the
\* executor's row is gone from Executors, the executor is still in both
\* reverse indexes, and it held a task.
C25_Witness ==
    /\ AtStep("committed")
    /\ request.payload.executor_id \notin DOMAIN db.Executors
    /\ request.payload.executor_id \in DOMAIN state.executor_running_task_count
    /\ request.payload.executor_id \in
          MapGetOrDefault(state.extractor_executors_table, result.executor_meta.extractor)
    /\ result.task_ids # {}

(***************************************************************************)
(* Assignment of tasks.                                                    *)
(***************************************************************************)
\* The task ids a request assigns to executor e.
NewlyAssigned(req, e) ==
    { t \in DOMAIN req.payload.assignments : req.payload.assignments[t] = e }

\* C26: after a successful AssignTask, the TaskAssignments row of every
\* executor named in the request is its previous set united with the task ids
\* newly assigned to it, the rows of the other executors are unchanged, and
\* every assigned task id is out of unassigned_tasks.
C26_AssignTaskAdditive ==
    [][ (request'.payload.type = "AssignTask" /\ result' = Ok) =>
          /\ \A e \in ExecutorIds :
                IF NewlyAssigned(request', e) # {}
                THEN /\ e \in DOMAIN db'.TaskAssignments
                     /\ db'.TaskAssignments[e] =
                            AssignedTo(db, e) \cup NewlyAssigned(request', e)
                ELSE /\ (e \in DOMAIN db'.TaskAssignments) <=> (e \in DOMAIN db.TaskAssignments)
                     /\ e \in DOMAIN db.TaskAssignments =>
                           db'.TaskAssignments[e] = db.TaskAssignments[e]
          /\ state'.unassigned_tasks \cap DOMAIN request'.payload.assignments = {}
      ]_vars

\* An AssignTask just gave executor ex1 a task while ex1 held another one, and
\* executor ex2, not named in the request, has a row.
C26_Witness ==
    /\ result = Ok
    /\ request.payload.type = "AssignTask"
    /\ NewlyAssigned(request, "ex1") # {}
    /\ NewlyAssigned(request, "ex2") = {}
    /\ AssignedTo(db, "ex1") \ NewlyAssigned(request, "ex1") # {}
    /\ AssignedTo(db, "ex2") # {}

(***************************************************************************)
(* SpecPolicies: the extraction policies applied on content.               *)
(***************************************************************************)
ExtractionPolicyIds == {"x1", "x2"}

\* The mappings of a request name a version of the root content; one carries
\* policy x1 without a completion time, the other policy x2 completed at 8.
ContentExtractionPolicyMappings ==
    { [content_id |-> [id |-> "p", version |-> v],
       extraction_policy_ids |-> {"x1"},
       time_of_policy_completion |-> EmptyMap] : v \in Versions }
    \cup { [content_id |-> [id |-> "p", version |-> v],
            extraction_policy_ids |-> {"x2"},
            time_of_policy_completion |-> [x \in {"x2"} |-> 8]] : v \in Versions }

\* One mapping, or two mappings (of the same content key or not).
SetContentExtractionPolicyMappingsPayloads ==
    { [type |-> "SetContentExtractionPolicyMappings",
       content_extraction_policy_mappings |-> <<m>>] :
        m \in ContentExtractionPolicyMappings }
    \cup { [type |-> "SetContentExtractionPolicyMappings",
            content_extraction_policy_mappings |-> <<m1, m2>>] :
             m1 \in ContentExtractionPolicyMappings,
             m2 \in ContentExtractionPolicyMappings }

MarkExtractionPolicyAppliedOnContentPayloads ==
    { [type |-> "MarkExtractionPolicyAppliedOnContent", content_id |-> "p",
       extraction_policy_id |-> x, policy_completion_time |-> 7] :
        x \in ExtractionPolicyIds }

\* The root content is created and re-versioned.
CreateRootContent ==
    /\ result = Ok
    /\ \E p \in CreateContentPayloads \cup UpdateContentPayloads :
          /\ p.type = "CreateContent" => p.content_metadata[1].id.id = "p"
          /\ p.type = "UpdateContent" => p.updated_content[1].new_content_data.id.id = "p"
          /\ Apply(Bare(p), TRUE)

SetContentExtractionPolicyMappings ==
    /\ result = Ok
    /\ \E p \in SetContentExtractionPolicyMappingsPayloads : Apply(Bare(p), TRUE)

MarkExtractionPolicyAppliedOnContent ==
    /\ result = Ok
    /\ \E p \in MarkExtractionPolicyAppliedOnContentPayloads : Apply(Bare(p), TRUE)

NextPolicies ==
    \/ CreateRootContent
    \/ SetContentExtractionPolicyMappings
    \/ MarkExtractionPolicyAppliedOnContent

SpecPolicies == Init /\ [][NextPolicies]_vars

\* The stored mapping of a content key (the empty mapping when there is no row).
StoredPolicyIds(txn, key) ==
    IF key \in DOMAIN txn.ExtractionPoliciesAppliedOnContent
    THEN txn.ExtractionPoliciesAppliedOnContent[key].extraction_policy_ids
    ELSE {}

StoredCompletionTimes(txn, key) ==
    IF key \in DOMAIN txn.ExtractionPoliciesAppliedOnContent
    THEN txn.ExtractionPoliciesAppliedOnContent[key].time_of_policy_completion
    ELSE EmptyMap

\* C27: after a successful SetContentExtractionPolicyMappings, for every
\* mapping of the request the stored mapping of its content key contains the
\* policy ids stored before and those of the mapping, the completion times of
\* the mapping, and the completion times stored before (of the policies for
\* which the request gives no time) -- also when the request holds two
\* mappings for the same content key.
C27_PolicyMappingsAccumulate ==
    [][ (request'.payload.type = "SetContentExtractionPolicyMappings" /\ result' = Ok) =>
          LET mappings == request'.payload.content_extraction_policy_mappings
          IN \A i \in DOMAIN mappings :
                LET key == ContentKey(mappings[i].content_id)
                    times == StoredCompletionTimes(db', key)
                    requested == UNION { DOMAIN mappings[j].time_of_policy_completion :
                                           j \in { k \in DOMAIN mappings :
                                                     ContentKey(mappings[k].content_id) = key } }
                IN /\ StoredPolicyIds(db, key) \subseteq StoredPolicyIds(db', key)
                   /\ mappings[i].extraction_policy_ids \subseteq StoredPolicyIds(db', key)
                   /\ DOMAIN mappings[i].time_of_policy_completion \subseteq DOMAIN times
                   /\ \A x \in DOMAIN StoredCompletionTimes(db, key) \ requested :
                         /\ x \in DOMAIN times
                         /\ times[x] = StoredCompletionTimes(db, key)[x]
      ]_vars

\* The cases in which mark_extraction_policy_applied_on_content fails: the
\* content has no version, no mapping row exists at its latest version, or the
\* policy id is not in that mapping's extraction_policy_ids.
MarkMustFail(txn, payload) ==
    LET latest_version == get_latest_version_of_content(txn, payload.content_id)
        key == content_key(payload.content_id, latest_version)
    IN \/ latest_version = 0
       \/ key \notin DOMAIN txn.ExtractionPoliciesAppliedOnContent
       \/ payload.extraction_policy_id \notin StoredPolicyIds(txn, key)

\* C28: MarkExtractionPolicyAppliedOnContent(content_id, policy_id, t) fails
\* with DatabaseError and changes nothing when the content has no version, when
\* no mapping row exists at its latest version, or when policy_id is not in
\* that mapping's policy ids; otherwise it sets
\* time_of_policy_completion[policy_id] = t in that mapping and leaves the
\* policy-id set and the other completion times unchanged.
C28_MarkPolicyApplied ==
    [][ request'.payload.type = "MarkExtractionPolicyAppliedOnContent" =>
          LET payload == request'.payload
              key == content_key(payload.content_id,
                                 get_latest_version_of_content(db, payload.content_id))
          IN IF MarkMustFail(db, payload)
             THEN /\ result'.kind = "DatabaseError"
                  /\ db' = db
                  /\ state' = state
             ELSE /\ result' = Ok
                  /\ key \in DOMAIN db'.ExtractionPoliciesAppliedOnContent
                  /\ StoredPolicyIds(db', key) = StoredPolicyIds(db, key)
                  /\ StoredCompletionTimes(db', key) =
                         MapPut(StoredCompletionTimes(db, key),
                                payload.extraction_policy_id,
                                payload.policy_completion_time)
                  /\ \A k \in DOMAIN db.ExtractionPoliciesAppliedOnContent \ {key} :
                        /\ k \in DOMAIN db'.ExtractionPoliciesAppliedOnContent
                        /\ db'.ExtractionPoliciesAppliedOnContent[k] =
                               db.ExtractionPoliciesAppliedOnContent[k]
      ]_vars

\* Policy x1 was just marked applied at time 7 on the latest version, 2, of
\* the root content, whose mapping holds two policy ids and the completion
\* time 8 of the other policy; the mapping of version 1 has no completion time
\* for x1.
C28_Witness ==
    /\ result = Ok
    /\ request.payload.type = "MarkExtractionPolicyAppliedOnContent"
    /\ request.payload.extraction_policy_id = "x1"
    /\ get_latest_version_of_content(db, "p") = 2
    /\ StoredPolicyIds(db, content_key("p", 2)) = {"x1", "x2"}
    /\ StoredCompletionTimes(db, content_key("p", 2)) = [x \in {"x1", "x2"} |->
                                                           IF x = "x1" THEN 7 ELSE 8]
    /\ "x1" \in StoredPolicyIds(db, content_key("p", 1))
    /\ "x1" \notin DOMAIN StoredCompletionTimes(db, content_key("p", 1))

(***************************************************************************)
(* State changes that do not exist.                                        *)
(***************************************************************************)
\* The state-change ids a request marks processed, in its envelope or in a
\* MarkStateChangesProcessed payload.
MarkedProcessed(req) ==
    { req.state_changes_processed[i].state_change_id :
        i \in DOMAIN req.state_changes_processed }
    \cup (IF req.payload.type = "MarkStateChangesProcessed"
          THEN { req.payload.state_changes[i].state_change_id :
                   i \in DOMAIN req.payload.state_changes }
          ELSE {})

\* The ids of the new state changes of a request.
NewStateChangeIds(req) ==
    { req.new_state_changes[i].id : i \in DOMAIN req.new_state_changes }

\* C29: an apply whose state_changes_processed list, or whose
\* MarkStateChangesProcessed payload, names a state-change id with no row in
\* StateChanges (none stored, none written by the same request) fails with
\* DatabaseError("State change not found"), and neither the store nor
\* unprocessed_state_changes nor any other reverse index changes.
C29_MissingStateChangeFails ==
    [][ (\E id \in MarkedProcessed(request') :
            id \notin DOMAIN db.StateChanges \cup NewStateChangeIds(request')) =>
          /\ result' = DatabaseError("State change not found")
          /\ db' = db
          /\ state' = state
      ]_vars

\* A RegisterExecutor failed because its state_changes_processed list names a
\* state change without a row; the executor was not registered, and the new
\* state change of the same envelope is not stored.
C29_Witness ==
    /\ result = DatabaseError("State change not found")
    /\ request.payload.type = "RegisterExecutor"
    /\ request.payload.executor_id \notin DOMAIN db.Executors
    /\ request.payload.executor_id \notin DOMAIN state.executor_running_task_count
    /\ Len(request.new_state_changes) = 1
    /\ NewStateChangeIds(request) \cap DOMAIN db.StateChanges = {}
    /\ NewStateChangeIds(request) \cap state.unprocessed_state_changes = {}

(***************************************************************************)
(* SpecQueries: content is created, re-versioned and tombstoned, and read  *)
(* by the three content queries.  A query leaves the store and the reverse *)
(* indexes alone; `request` holds the query and `result` what it returned. *)
(***************************************************************************)
ContentQueries ==
    { [type |-> "get_content_from_ids", content_ids |-> ids] :
        ids \in (SUBSET ContentIds) \ {{}} }
    \cup { [type |-> "get_content_from_ids_with_version", versioned_content_ids |-> {cid}] :
             cid \in ContentMetadataIds }
    \cup { [type |-> "get_content_tree_metadata", content_id |-> id] :
             id \in ContentIds }

\* Ok(contents)
Contents(contents) == [kind |-> "Ok", msg |-> "", contents |-> contents]

ReadContent ==
    /\ result = Ok
    /\ \E q \in ContentQueries :
          /\ request' = Bare(q)
          /\ result' = Contents(
                CASE q.type = "get_content_from_ids" ->
                         get_content_from_ids(db, q.content_ids)
                  [] q.type = "get_content_from_ids_with_version" ->
                         get_content_from_ids_with_version(db, q.versioned_content_ids)
                  [] q.type = "get_content_tree_metadata" ->
                         get_content_tree_metadata(db, state.content_children_table,
                                                   q.content_id))
    /\ UNCHANGED <<db, state>>

NextQueries ==
    \/ CreateContent
    \/ UpdateContent
    \/ TombstoneContentTree
    \/ ReadContent

SpecQueries == Init /\ [][NextQueries]_vars

\* The row of the latest version of a content id that has one.
LatestRow(id) == Row(db, [id |-> id, version |-> get_latest_version_of_content(db, id)])

\* The content ids reachable from the ids of frontier: an id that has a row
\* reaches the ids of the children that content_children holds under its
\* latest version.
RECURSIVE TreeIds(_, _)
TreeIds(seen, frontier) ==
    LET nodes == { id \in frontier \ seen : get_latest_version_of_content(db, id) > 0 }
        next == UNION { { ch.id : ch \in MapGetOrDefault(state.content_children_table,
                                                         LatestRow(id).id) } : id \in nodes }
    IN IF nodes = {} THEN seen
       ELSE TreeIds(seen \cup nodes, next)

Elements(seq) == { seq[i] : i \in DOMAIN seq }

\* C30: get_content_from_ids and get_content_from_ids_with_version return the
\* rows of the requested ids (at the latest, or at the named, version) that
\* are not tombstoned, and skip the ids that have no row; and
\* get_content_tree_metadata returns the row at its latest version of every
\* node reachable from the root through content_children, tombstoned or not.
C30_TombstoneVisibility ==
    /\ request.payload.type = "get_content_from_ids" =>
          Elements(result.contents) =
              { LatestRow(id) : id \in
                  { x \in request.payload.content_ids :
                      /\ get_latest_version_of_content(db, x) > 0
                      /\ ~LatestRow(x).tombstoned } }
    /\ request.payload.type = "get_content_from_ids_with_version" =>
          Elements(result.contents) =
              { Row(db, cid) : cid \in
                  { x \in request.payload.versioned_content_ids :
                      HasRow(db, x) /\ ~Row(db, x).tombstoned } }
    /\ request.payload.type = "get_content_tree_metadata" =>
          Elements(result.contents) =
              { LatestRow(id) : id \in TreeIds({}, {request.payload.content_id}) }

\* The tree of the root, whose latest version is 2, was just read and holds
\* two rows, the root's and a tombstoned child's, while get_content_from_ids
\* returns nothing for the child.
C30_Witness ==
    /\ request.payload.type = "get_content_tree_metadata"
    /\ request.payload.content_id = "p"
    /\ Len(result.contents) = 2
    /\ \E i \in DOMAIN result.contents :
          result.contents[i].id.id = "c" /\ result.contents[i].tombstoned
    /\ get_content_from_ids(db, {"c"}) = <<>>
    /\ get_latest_version_of_content(db, "p") = 2

(***************************************************************************)
(* SpecReplaceSteps: ContentChildrenTable::replace_parent, one statement   *)
(* at a time, beside readers of the table.  The table is behind an RwLock: *)
(* a reader takes the read lock, which it gets only while no write guard   *)
(* is held.  While a replace_parent is in flight, `result` holds the       *)
(* position of the call, whether it holds the write guard, its arguments   *)
(* and the children set it removed.                                        *)
(***************************************************************************)
Replacing(pc, write_guard, old_parent_id, new_parent_id, children) ==
    [kind |-> "InFlight", msg |-> "", pc |-> pc, write_guard |-> write_guard,
     old_parent_id |-> old_parent_id, new_parent_id |-> new_parent_id,
     children |-> children]

\* replace_parent is called with any two keys.
replace_parent_call ==
    /\ result = Ok
    /\ \E old_parent_id \in ContentMetadataIds, new_parent_id \in ContentMetadataIds :
          /\ request' = Bare([type |-> "replace_parent",
                              old_parent_id |-> old_parent_id,
                              new_parent_id |-> new_parent_id])
          /\ result' = Replacing("called", FALSE, old_parent_id, new_parent_id, {})
    /\ UNCHANGED <<db, state>>

\* A faulty first statement that goes on without the write guard.
replace_parent_without_guard ==
    /\ AtStep("called")
    /\ result' = [result EXCEPT !.pc = "locked", !.write_guard = FALSE]
    /\ UNCHANGED <<db, state, request>>

\* let mut guard = self.content_children.write().unwrap();
replace_parent_write ==
    /\ AtStep("called")
    /\ result' = [result EXCEPT !.pc = "locked", !.write_guard = TRUE]
    /\ UNCHANGED <<db, state, request>>

\* let children = guard.remove(old_parent_id).unwrap_or_default();
replace_parent_remove ==
    /\ AtStep("locked")
    /\ state' = [state EXCEPT !.content_children_table = MapDel(@, result.old_parent_id)]
    /\ result' = [result EXCEPT
                    !.pc = "removed",
                    !.children = MapGetOrDefault(state.content_children_table,
                                                 result.old_parent_id)]
    /\ UNCHANGED <<db, request>>

\* guard.insert(new_parent_id.clone(), children); the guard is dropped and
\* the call returns.
replace_parent_insert ==
    /\ AtStep("removed")
    /\ state' = [state EXCEPT !.content_children_table =
                    MapPut(@, result.new_parent_id, result.children)]
    /\ result' = Ok
    /\ UNCHANGED <<db, request>>

\* ContentChildrenTable::inner by a reader: the read lock, then a clone of
\* the map.  `request` holds what the reader saw.
inner ==
    /\ ~(result.kind = "InFlight" /\ result.write_guard)
    /\ request' = Bare([type |-> "inner",
                        content_children |-> state.content_children_table])
    /\ UNCHANGED <<db, state, result>>

NextReplaceSteps ==
    \/ CreateContent
    \/ replace_parent_call
    \/ replace_parent_write
    \/ replace_parent_remove
    \/ replace_parent_insert
    \/ inner

SpecReplaceSteps == Init /\ [][NextReplaceSteps]_vars

\* C31: replace_parent(K_old, K_new) is atomic for the readers of
\* content_children: no reader reads the table between the remove and the
\* insert (where the children set is under neither key); a reader that reads
\* during the call reads the table as it was when the call was made, and the
\* insert leaves the removed children set under K_new and nothing under K_old.
C31_ReplaceParentAtomic ==
    /\ [][ (request'.payload.type = "inner" /\ request' # request
            /\ result.kind = "InFlight") =>
              /\ result.pc # "removed"
              /\ result.children = {}
         ]_vars
    /\ [][ (AtStep("removed") /\ result.old_parent_id # result.new_parent_id) =>
              /\ result.old_parent_id \notin DOMAIN state'.content_children_table
              /\ get_children(state'.content_children_table, result.new_parent_id)
                     = result.children
         ]_vars

\* A replace_parent of two different keys holds the write guard between its
\* remove and its insert: the children set it took is under neither key.
C31_Witness ==
    /\ AtStep("removed")
    /\ result.write_guard
    /\ result.children # {}
    /\ result.old_parent_id \notin DOMAIN state.content_children_table
    /\ result.new_parent_id \notin DOMAIN state.content_children_table

(***************************************************************************)
(* SpecLineage: content whose requests name any content as the parent, the *)
(* content itself included.                                                *)
(***************************************************************************)
\* New content at version 1 whose parent is none or the content itself.
LineageContentMetadatas ==
    { cm \in [id : ContentMetadataIds,
              parent_id : {NoParent} \cup ContentMetadataIds,
              namespace : Namespaces,
              tombstoned : {FALSE}] :
        cm.id.version = 1 /\ cm.parent_id \in {NoParent, cm.id} }

CreateContentAnyParentPayloads ==
    { [type |-> "CreateContent", content_metadata |-> <<cm>>] :
        cm \in LineageContentMetadatas }

CreateContentAnyParent ==
    /\ result = Ok
    /\ \E p \in CreateContentAnyParentPayloads : Apply(Bare(p), TRUE)

NextLineage ==
    \/ CreateContentAnyParent
    \/ UpdateContent
    \/ UpdateGarbageCollectionTask

SpecLineage == Init /\ [][NextLineage]_vars

\* The keys of content_children that are reachable from themselves.
OnCycle(children) ==
    { k \in DOMAIN children : k \in Descendants(children, {}, get_children(children, k)) }

\* C32: after successful CreateContent, UpdateContent and
\* UpdateGarbageCollectionTask requests, content_children is acyclic: no
\* ContentMetadataId is reachable from itself through one or more child edges.
C32_ChildrenAcyclic ==
    result = Ok => OnCycle(state.content_children_table) = {}

(***************************************************************************)
(* The executors that hold a task.                                         *)
(***************************************************************************)
\* The executors whose persisted assignment set holds task t.
HoldersOf(txn, t) ==
    { e \in DOMAIN txn.TaskAssignments : t \in txn.TaskAssignments[e] }

\* C33: after successful applies, each task id is in the persisted assignment
\* set of at most one executor.
C33_OneExecutorPerTask ==
    result = Ok => \A t \in TaskIds : Cardinality(HoldersOf(db, t)) <= 1

\* Task t was marked finished and not created again: it has a row and is not
\* among the unfinished tasks of its extractor (CreateTasks puts a task there
\* and only a finishing UpdateTask takes it out).
Finished(txn, st, t) ==
    /\ t \in DOMAIN txn.Tasks
    /\ t \notin MapGetOrDefault(st.unfinished_tasks_by_extractor, txn.Tasks[t].extractor)

\* C34: a task that was marked finished by a successful UpdateTask and is not
\* in unassigned_tasks is not put into unassigned_tasks by a later
\* RemoveExecutor or AssignTask.
C34_FinishedStaysOutOfUnassigned ==
    [][ (request'.payload.type \in {"RemoveExecutor", "AssignTask"} /\ result' = Ok) =>
          \A t \in TaskIds :
              (Finished(db, state, t) /\ t \notin state.unassigned_tasks)
                  => t \notin state'.unassigned_tasks
      ]_vars

(***************************************************************************)
(* Garbage-collected content.                                              *)
(***************************************************************************)
\* C35: after a successful UpdateGarbageCollectionTask with mark_finished =
\* true for content id C (which had a row), C is no longer resolvable:
\* get_latest_version_of_content(C) = 0 and get_content_from_ids({C}) is empty.
C35_CollectedContentUnresolvable ==
    [][ (request'.payload.type = "UpdateGarbageCollectionTask"
         /\ request'.payload.mark_finished
         /\ result' = Ok
         /\ get_latest_version_of_content(db, request'.payload.gc_task.content_id) > 0) =>
          /\ get_latest_version_of_content(db', request'.payload.gc_task.content_id) = 0
          /\ get_content_from_ids(db', {request'.payload.gc_task.content_id}) = <<>>
      ]_vars

(***************************************************************************)
(* A re-versioned content under its parent.                                *)
(***************************************************************************)
\* C36: when a successful UpdateContent re-versions a content K_old that is a
\* child of some parent P, the entry of the content in content_children[P]
\* follows the update: afterwards K_new is a child of P and K_old is not.
C36_ParentEntryFollowsUpdate ==
    [][ (request'.payload.type = "UpdateContent" /\ result' = Ok) =>
          \A i \in DOMAIN request'.payload.updated_content :
              LET entry == request'.payload.updated_content[i]
                  K_old == KeyToContentId(entry.old_content_key)
                  K_new == entry.new_content_data.id
              IN \A P \in DOMAIN state.content_children_table :
                    (P \notin {K_old, NoParent} /\ K_old \in state.content_children_table[P]) =>
                        /\ K_new \in get_children(state'.content_children_table, P)
                        /\ K_old \notin get_children(state'.content_children_table, P)
      ]_vars

(***************************************************************************)
(* SpecTraversal: content trees with any parent are built, re-versioned    *)
(* and traversed by TombstoneContentTree.                                  *)
(***************************************************************************)
NextTraversal ==
    \/ CreateContentAnyParent
    \/ UpdateContent
    \/ TombstoneContentTree

SpecTraversal == Init /\ [][NextTraversal]_vars

\* C37: in every state reachable by successful applies, the breadth-first
\* traversal of tombstone_content_tree terminates for every root: the call
\* returns Ok or an error.
C37_TraversalTerminates ==
    request.payload.type = "TombstoneContentTree" => result # Diverges

(***************************************************************************)
(* The contents listed by namespace.                                       *)
(***************************************************************************)
\* C38: after successful applies, every ContentMetadataId listed in
\* content_namespace_table has a ContentTable row at that id and version
\* whose namespace is the key it is listed under.
C38_ListedContentHasRow ==
    result = Ok =>
        \A namespace \in DOMAIN state.content_namespace_table :
            \A content_id \in state.content_namespace_table[namespace] :
                /\ HasRow(db, content_id)
                /\ Row(db, content_id).namespace = namespace

(***************************************************************************)
(* A parent and its child in one request, and in two.                      *)
(***************************************************************************)
\* The request is a CreateContent whose list holds a content of an id that
\* has no row at any version in txn, and a child that names that id as its
\* parent.
CarriesParentAndChild(txn, req) ==
    /\ req.payload.type = "CreateContent"
    /\ \E i \in DOMAIN req.payload.content_metadata :
          \E j \in DOMAIN req.payload.content_metadata :
              /\ i # j
              /\ req.payload.content_metadata[j].parent_id.id =
                     req.payload.content_metadata[i].id.id
              /\ get_latest_version_of_content(
                     txn, req.payload.content_metadata[i].id.id) = 0

\* The parent was created by the request before (successfully) and this
\* request creates a child of it.
ChildAfterParent(before, req) ==
    /\ before.payload.type = "CreateContent"
    /\ req.payload.type = "CreateContent"
    /\ Len(before.payload.content_metadata) = 1
    /\ Len(req.payload.content_metadata) = 1
    /\ req.payload.content_metadata[1].parent_id.id =
           before.payload.content_metadata[1].id.id
    /\ req.payload.content_metadata[1].id.id #
           before.payload.content_metadata[1].id.id

get_content_extraction_policy_mappings_for_content_id(txn, content_id) ==
    IF content_key(content_id, get_latest_version_of_content(txn, content_id))
           \in DOMAIN txn.ExtractionPoliciesAppliedOnContent
    THEN Some(txn.ExtractionPoliciesAppliedOnContent[
                  content_key(content_id, get_latest_version_of_content(txn, content_id))])
    ELSE None

\* The policy ids of the mapping the read method returns for the content.
MappedPolicyIds(txn, content_id) ==
    UNION { mapping.extraction_policy_ids :
              mapping \in get_content_extraction_policy_mappings_for_content_id(
                              txn, content_id) }

\* C40: policy mappings survive re-versioning: after a successful UpdateContent
\* of content C, every policy that the mapping read for C contained before is
\* in the mapping read for C now, and MarkExtractionPolicyAppliedOnContent of
\* C and that policy succeeds.
C40_MappingsSurviveReversion ==
    [][ (request'.payload.type = "UpdateContent" /\ result' = Ok) =>
          \A i \in DOMAIN request'.payload.updated_content :
              LET C == request'.payload.updated_content[i].new_content_data.id.id
              IN \A x \in MappedPolicyIds(db, C) :
                    /\ x \in MappedPolicyIds(db', C)
                    /\ apply_state_machine_updates(
                           Bare([type |-> "MarkExtractionPolicyAppliedOnContent",
                                 content_id |-> C, extraction_policy_id |-> x,
                                 policy_completion_time |-> 7]),
                           TRUE, db', state').res = Ok
      ]_vars

=============================================================================
